---- MODULE Spec2Model ----
(***************************************************************************)
(* Archive lifecycle and hot-swap of the geoip service.                    *)
(*                                                                         *)
(* Spec   : MaxMindService (state/maxmind.rs): the updater task, its       *)
(*          download / extract / open / swap / deferred cleanup, and the   *)
(*          requests that load a reader from a Reader Slot.                *)
(* SpecFS : FileService (state/files.rs): refresh_archive, the Archive     *)
(*          Index, its deferred cleanup tasks and get_latest_archive       *)
(*          callers.                                                       *)
(*                                                                         *)
(* Instants are small naturals (hours).  A file is a record                *)
(* [body, data, complete]: body says what kind of bytes it holds, data     *)
(* identifies the bytes (the number of the download they came from, or the *)
(* instant written in a .timestamp file), complete is FALSE while only a   *)
(* part of the bytes has been written.                                     *)
(***************************************************************************)
EXTENDS Integers, Sequences, FiniteSets, TLC

\* ------------------------------------------------------------------ bounds
MaxTime == 2
MaxUpdates == 3
AutoUpdateInterval == 1
NumRequests == 1
MaxFsTime == 4
MinInterval == 2
MaxRefreshes == 3
NumCallers == 1
MaxRestarts == 1

\* --------------------------------------------------------- configuration
Editions == <<"GeoLite2-City", "GeoLite2-ASN">>
EditionSet == {Editions[i] : i \in 1..Len(Editions)}
Times == 0..MaxTime
Requests == 1..NumRequests
FsTimes == 0..MaxFsTime
Callers == 1..NumCallers
\* The tags refresh_archive is called for (TimezoneService::update).
FsTags == {"tzdata"}

\* What an upstream 200 body can be.
Bodies == {"good", "badmmdb", "nommdb", "nongz"}
\* Upstream status codes, one per class the code tells apart.
StatusCodes == {200, 300, 304, 404}

\* ------------------------------------------------------------------ paths
MmdbPath(edition, ts) == [kind |-> "mmdb", tag |-> edition, ts |-> ts]
ArchivePath(edition, ts) == [kind |-> "tar.gz", tag |-> edition, ts |-> ts]
TimestampPath(tag) == [kind |-> "timestamp", tag |-> tag, ts |-> 0]
TempPath(owner) == [kind |-> "tmp", tag |-> owner, ts |-> 0]
\* TimezoneService::decompress: <tag>-<ts>.tar.gz with both extensions removed.
DecompressedPath(archive) == [archive EXCEPT !.kind = "dir"]
\* TimezoneService::compile: the decompressed directory with .zoneinfo added.
ZoneinfoPath(dir) == [dir EXCEPT !.kind = "zoneinfo"]
\* Path::with_extension("tar.gz") replaces the extension.
WithExtensionTarGz(path) == [path EXCEPT !.kind = "tar.gz"]
\* Path::with_added_extension("tar.gz") appends to the existing extension.
WithAddedExtensionTarGz(path) == [path EXCEPT !.kind = path.kind \o ".tar.gz"]

NoFile == [body |-> "absent", data |-> 0, complete |-> FALSE]
NoHandle == [ed |-> "", ts |-> 0, gen |-> 0, body |-> "none"]
NoPath == [kind |-> "none", tag |-> "", ts |-> 0]
\* No Arc<ArchiveFileInfo>: None.
NoInfo == [id |-> 0, tag |-> "", mtime |-> 0, utime |-> 0]
\* No refresh_archive call yet.
NoCall == [t |-> 0, sent |-> FALSE, ret |-> "none", cur |-> FALSE]
\* The zones of /usr/share/zoneinfo (load_from_system).
SystemZones == [from |-> "system", mtime |-> 0, complete |-> TRUE]

VARIABLES
    now,        \* the wall clock, as last read by update_all or refresh_archive
                \* (before the first tick: one interval before instant 0)
    disk,       \* data_dir: path -> file (NoFile when absent)
    readers,    \* MaxMindService.readers: edition -> handle (NoHandle when empty)
    errors,     \* MaxMindService.errors: edition -> message ("" when empty)
    upc,        \* where the updater task is
    uix,        \* update_all: index of the edition being visited
    ulm,        \* download: last_modified of the response
    uold,       \* update: the handle returned by swap
    ngen,       \* number of requests the updater has sent so far
    rpc,        \* request -> where it is
    rh,         \* request -> the handle it holds
    ures,       \* update_all: what update() returned, until it is stored
    tickReaders,\* history: readers at the start of the current tick
    cleanups,   \* history: mmdb path -> number of cleanup() calls
    reqFailed,  \* history: a request ended with an I/O error
    archives,   \* FileService.archives: tag -> version record (NoInfo when none)
    fpc,        \* where the refresh_archive call is
    ftag,       \* refresh_archive: its tag
    finfo,      \* refresh_archive: the record it loaded at its start
    fmtime,     \* refresh_archive: mtime of the response
    fstatus,    \* refresh_archive: status of the response being downloaded
    gcs,        \* the spawned cleanup tasks: the records they wait for
    cpc,        \* caller -> where it is
    ch,         \* caller -> the record it got from get_latest_archive
    nid,        \* number of records allocated since the process started
    restarts,   \* number of process restarts so far
    httpCalls,  \* history: number of HTTP requests refresh_archive has sent
    ncalls,     \* history: number of refresh_archive calls
    prevCall,   \* history: this FileService's refresh_archive call before the last
    lastCall,   \* history: this FileService's last refresh_archive call
    timezones,  \* TimezoneService.timezones: where the zones in use came from,
                \* and whether all of that archive was unpacked for them
    tzpc,       \* where TimezoneService::update is after refresh_archive
    tzinfo,     \* TimezoneService::update: the record refresh_archive returned
    names,      \* file names: the names of the entries of data_dir
    todo,       \* file names: the entries read_dir has yet to give
    out,        \* file names: the records find_and_cleanup_archives has kept
    dpc,        \* file names: "running", "scan" (startup discovery), "done"
    names0,     \* history: names when the discovery began
    published,  \* file names: the record the last refresh published
    req,        \* file names: what the last refresh_archive call did about its request
    bpc,        \* startup: "load" (load_all_latest), then "serving"
    bix,        \* load_all_latest: index of the edition being loaded
    disk0,      \* history: data_dir when the process started
    lq,         \* the edition parameter of the last lookup ("" when omitted)
    lres,       \* what the last lookup returned
    lstatus,    \* the HTTP status lookup_geoip answered with
    bupd,       \* the edition update_all visited last and what update returned
    cfg,        \* AppConfig: whether MAXMIND_ACCOUNT_ID and MAXMIND_DOWNLOAD_URL are set
    updater,    \* start_updater: "none" before it is called, then "spawned" or "disabled"
    hsize,      \* edition -> file_size and archive_file_size of the handle in the slot
    lstat,      \* what the last status() returned (<<>> when a lookup came after)
    heap,       \* index: the maps allocated so far (a map is never written again)
    index,      \* index: the map FileService.archives points to (its place in heap)
    ppc,        \* index: tag -> where the rcu of the tag's refresh is
    pcur,       \* index: tag -> the map its rcu has loaded
    pnew,       \* index: tag -> the map its closure has returned
    pkind,      \* index: tag -> the closure of its rcu ("update" or "bump")
    pver,       \* index: tag -> the time of its refresh (number of its publications)
    plast,      \* history: tag -> the entry its last finished rcu has written
    snap,       \* index: the map a reader has loaded (0 when none)
    snapSeen,   \* history: what the reader's map held as it was loaded
    tzbytes,    \* load_from_slice: bytes, the content of a file of zoneinfo
    tzname,     \* load_from_slice: name, the zone id the file stands for
    tzin,       \* history: the table load_from_slice was given
    tzout,      \* load_from_slice: out, the table (zone id -> POSIX TZ text)
    tzres       \* load_from_slice: what it returned ("none" before the call)

mmvars == <<readers, errors, upc, uix, ulm, uold, ngen, rpc, rh,
            ures, tickReaders, cleanups, reqFailed>>
tzvars == <<timezones, tzpc, tzinfo>>
fsvars == <<archives, fpc, ftag, finfo, fmtime, fstatus, gcs, cpc, ch, nid, restarts,
            httpCalls, ncalls, prevCall, lastCall, tzvars>>
zvars == <<tzbytes, tzname, tzin, tzout, tzres>>
ivars == <<heap, index, ppc, pcur, pnew, pkind, pver, plast, snap, snapSeen, zvars>>
nvars == <<names, todo, out, dpc, names0, published, req, ivars>>
svars == <<bpc, bix, disk0, lq, lres, lstatus, bupd, cfg, updater, hsize, lstat>>
vars == <<now, disk, mmvars, fsvars, nvars, svars>>

Tags == EditionSet \cup {"tzdata"}
MmdbPaths == {MmdbPath(e, t) : e \in EditionSet, t \in Times}
ArchivePaths == {ArchivePath(g, t) : g \in Tags, t \in Times \cup FsTimes}
TimestampPaths == {TimestampPath(g) : g \in Tags}
TempPaths == {TempPath(g) : g \in Tags \cup {"updater", "leftover"}}
ExtractedPaths ==
    {DecompressedPath(ArchivePath(g, t)) : g \in FsTags, t \in FsTimes}
        \cup {ZoneinfoPath(DecompressedPath(ArchivePath(g, t))) : g \in FsTags, t \in FsTimes}
AllPaths == MmdbPaths \cup ArchivePaths \cup TimestampPaths \cup TempPaths
                \cup ExtractedPaths

\* ---------------------------------------------------------------- helpers
\* The file system: create or replace, unlink (of a missing path: an error
\* the code logs), look up.
Put(d, path, file) == [d EXCEPT ![path] = file]
Exists(d, path) == path \in DOMAIN d /\ d[path] # NoFile
Remove(d, path) == IF path \in DOMAIN d THEN [d EXCEPT ![path] = NoFile] ELSE d
FileAt(d, path) == IF path \in DOMAIN d THEN d[path] ELSE NoFile
\* rename(2): the destination is replaced in one step.
Rename(d, from, to) == [d EXCEPT ![to] = d[from], ![from] = NoFile]

\* get_edition_mtime: the mtime parsed from the current reader's path.
HasMtime(edition) == readers[edition] # NoHandle
EditionMtime(edition) == readers[edition].ts
HandlePath(h) == MmdbPath(h.ed, h.ts)

\* update(edition) returns res to update_all.
Return(res) ==
    /\ ures' = res
    /\ ulm' = 0
    /\ upc' = "store"

Cur == Editions[uix]

\* No record of an archive (file names).
NoArchive == [tag |-> <<>>, path |-> <<>>, mtime |-> [s |-> 0 - 1, ns |-> 0]]

\* No refresh_archive call yet.
NoTime == [s |-> 0 - 1, ns |-> 0]
NoRequest == [sent |-> FALSE, skipped |-> FALSE, ims |-> NoTime]

\* The file-name part is not running.
NamesOff ==
    /\ names = {} /\ todo = {} /\ out = {} /\ dpc = "off" /\ names0 = {}
    /\ published = NoArchive /\ req = NoRequest

\* The startup part is not running.
NoUpdate == [ed |-> "", res |-> "none"]
StartupOff ==
    /\ bpc = "off" /\ bix = 0 /\ disk0 = <<>> /\ lq = "" /\ lres = "none"
    /\ lstatus = 0 /\ bupd = NoUpdate
    /\ cfg = [account |-> FALSE, url |-> FALSE] /\ updater = "none"
    /\ hsize = <<>> /\ lstat = <<>>

\* No file of zoneinfo is being read.
SliceOff ==
    /\ tzbytes = <<>> /\ tzname = "" /\ tzin = <<>> /\ tzout = <<>> /\ tzres = "off"

\* The index part is not running (nor is a file of zoneinfo being read).
IndexOff ==
    /\ heap = <<>> /\ index = 0 /\ ppc = <<>> /\ pcur = <<>> /\ pnew = <<>>
    /\ pkind = <<>> /\ pver = <<>> /\ plast = <<>> /\ snap = 0 /\ snapSeen = <<>>
    /\ SliceOff

\* ------------------------------------------------------------------- Init
InitDisk(loaded) ==
    [p \in AllPaths |->
        IF p.tag \in loaded /\ p.ts = 0 /\ p.kind = "mmdb"
        THEN [body |-> "db", data |-> 0, complete |-> TRUE]
        ELSE IF p.tag \in loaded /\ p.ts = 0 /\ p.kind = "tar.gz"
        THEN [body |-> "good", data |-> 0, complete |-> TRUE]
        ELSE IF p.tag \in loaded /\ p.ts = 0 /\ p.kind \in {"dir", "zoneinfo"}
        THEN [body |-> "zones", data |-> 0, complete |-> TRUE]
        ELSE NoFile]

\* MaxMindService::new: the latest version of every edition in loaded is open.
InitMaxMind(loaded) ==
    /\ readers = [e \in EditionSet |->
                    IF e \in loaded
                    THEN [ed |-> e, ts |-> 0, gen |-> 0, body |-> "db"]
                    ELSE NoHandle]
    /\ tickReaders = readers
    /\ errors = [e \in EditionSet |-> ""]
    /\ upc = "idle"
    /\ uix = 1
    /\ ulm = 0
    /\ uold = NoHandle
    /\ ngen = 0
    /\ rpc = [r \in Requests |-> "idle"]
    /\ rh = [r \in Requests |-> NoHandle]
    /\ ures = "none"
    /\ cleanups = [p \in MmdbPaths |-> 0]
    /\ reqFailed = FALSE

\* FileService::new: the index holds the archives found in data_dir (their
\* utime is their mtime when there is no .timestamp file).
InitFileService(found) ==
    /\ archives = [g \in Tags |->
                     IF g \in found
                     THEN [id |-> 1, tag |-> g, mtime |-> 0, utime |-> 0]
                     ELSE NoInfo]
    /\ fpc = "idle"
    /\ ftag = ""
    /\ finfo = NoInfo
    /\ fmtime = 0
    /\ fstatus = 0
    /\ gcs = {}
    /\ cpc = [c \in Callers |-> "idle"]
    /\ ch = [c \in Callers |-> NoInfo]
    /\ nid = 1
    /\ restarts = 0
    /\ httpCalls = 0
    /\ ncalls = 0
    /\ prevCall = NoCall
    /\ lastCall = NoCall
    /\ timezones = IF "tzdata" \in found
                   THEN [from |-> "archive", mtime |-> 0, complete |-> TRUE]
                   ELSE SystemZones
    /\ tzpc = "idle"
    /\ tzinfo = NoInfo

Init ==
    /\ now = 0 - AutoUpdateInterval
    /\ \E loaded \in SUBSET EditionSet :
        /\ disk = InitDisk(loaded)
        /\ InitMaxMind(loaded)
    /\ InitFileService({})
    /\ NamesOff
    /\ IndexOff
    /\ StartupOff

\* ------------------------------------------------- the updater: update_all
UpdaterTmp == TempPath("updater")
NumEditions == Len(Editions)

\* start_updater: the interval fires (at once the first time, then one interval
\* after the tick before) and update_all reads the clock.
\* A timer that would start update_all whatever the task is doing.
UpdaterAwaitsNothing == TRUE
\* The task is at interval.tick().await: the update_all before has returned.
UpdaterAwaitsTick == upc = "idle"

TickStart ==
    /\ UpdaterAwaitsTick
    /\ upc' = "loop"
    /\ uix' = 1
    /\ \E t \in Times : t >= now + AutoUpdateInterval /\ now' = t
    /\ tickReaders' = readers
    /\ UNCHANGED <<disk, readers, errors, ulm, uold, ngen, rpc, rh,
                   ures, cleanups, reqFailed>>
    /\ UNCHANGED <<fsvars, nvars, svars>>

\* update_all: every edition was visited.
TickEnd ==
    /\ upc = "loop"
    /\ uix > NumEditions
    /\ upc' = "idle"
    /\ uix' = 1
    /\ UNCHANGED <<now, disk, readers, errors, ulm, uold, ngen, rpc, rh,
                   ures, tickReaders, cleanups, reqFailed>>
    /\ UNCHANGED <<fsvars, nvars, svars>>

\* update_all: the current reader is newer than the interval.
NewerThanInterval(edition) ==
    HasMtime(edition) /\ now - EditionMtime(edition) < AutoUpdateInterval

SkipEdition ==
    /\ upc = "loop"
    /\ uix <= NumEditions
    /\ NewerThanInterval(Cur)
    /\ uix' = uix + 1
    /\ UNCHANGED <<now, disk, readers, errors, upc, ulm, uold, ngen, rpc, rh,
                   ures, tickReaders, cleanups, reqFailed>>
    /\ UNCHANGED <<fsvars, nvars, svars>>

\* update(edition) is called and download(edition) sends its request.
Sending ==
    /\ upc = "loop"
    /\ uix <= NumEditions
    /\ ~NewerThanInterval(Cur)
    /\ ngen < MaxUpdates
    /\ ngen' = ngen + 1

\* download: req.send() fails.
SendFails ==
    /\ Sending
    /\ Return("Reqwest")
    /\ UNCHANGED <<now, disk, readers, errors, uix, uold, rpc, rh,
                   tickReaders, cleanups, reqFailed>>
    /\ UNCHANGED <<fsvars, nvars, svars>>

\* download: 304 gives Ok(None), and update returns Ok.
RespondNotModified ==
    /\ Sending
    /\ Return("Ok")
    /\ UNCHANGED <<now, disk, readers, errors, uix, uold, rpc, rh,
                   tickReaders, cleanups, reqFailed>>
    /\ UNCHANGED <<fsvars, nvars, svars>>

\* StatusCode::is_success
IsSuccess(status) == status >= 200 /\ status < 300

\* download: a status that is neither 304 nor 2xx.
RespondHttpError ==
    /\ Sending
    /\ \E status \in StatusCodes : status # 304 /\ ~IsSuccess(status)
    /\ Return("HttpError")
    /\ UNCHANGED <<now, disk, readers, errors, uix, uold, rpc, rh,
                   tickReaders, cleanups, reqFailed>>
    /\ UNCHANGED <<fsvars, nvars, svars>>

\* Where the received chunks are written: the temp file.
ChunkTargetCanonical(tmp, canonical) == canonical
ChunkTarget(tmp, canonical) == tmp

\* download: 2xx; Last-Modified is parsed (absent or unparseable: now), the temp
\* file is created and the first chunks are written to it.
Respond200 ==
    /\ Sending
    /\ \E body \in Bodies, hdr \in Times \cup {-1} :
        LET lm == IF hdr = -1 THEN now ELSE hdr IN
        /\ ulm' = lm
        /\ disk' = Put(disk, ChunkTarget(UpdaterTmp, ArchivePath(Cur, lm)),
                       [body |-> body, data |-> ngen + 1, complete |-> FALSE])
    /\ upc' = "recv"
    /\ UNCHANGED <<now, readers, errors, uix, uold, rpc, rh,
                   ures, tickReaders, cleanups, reqFailed>>
    /\ UNCHANGED <<fsvars, nvars, svars>>

\* download: res.chunk() fails; the temp file is dropped with its path.
RecvFails ==
    /\ upc = "recv"
    /\ disk' = Remove(disk, UpdaterTmp)
    /\ Return("Reqwest")
    /\ UNCHANGED <<now, readers, errors, uix, uold, ngen, rpc, rh,
                   tickReaders, cleanups, reqFailed>>
    /\ UNCHANGED <<fsvars, nvars, svars>>

\* download: the last chunk is written.
RecvDone ==
    /\ upc = "recv"
    /\ LET target == ChunkTarget(UpdaterTmp, ArchivePath(Cur, ulm)) IN
        disk' = Put(disk, target, [disk[target] EXCEPT !.complete = TRUE])
    /\ upc' = "persist"
    /\ UNCHANGED <<now, readers, errors, uix, ulm, uold, ngen, rpc, rh,
                   ures, tickReaders, cleanups, reqFailed>>
    /\ UNCHANGED <<fsvars, nvars, svars>>

\* download: file.persist(&archive_path).
Persist ==
    /\ upc = "persist"
    /\ disk' = IF Exists(disk, UpdaterTmp)
               THEN Rename(disk, UpdaterTmp, ArchivePath(Cur, ulm))
               ELSE disk
    /\ upc' = "extract"
    /\ UNCHANGED <<now, readers, errors, uix, ulm, uold, ngen, rpc, rh,
                   ures, tickReaders, cleanups, reqFailed>>
    /\ UNCHANGED <<fsvars, nvars, svars>>

\* extract_mmdb on a body that is not a gzipped tar: the error is propagated.
ExtractFails ==
    /\ upc = "extract"
    /\ disk[ArchivePath(Cur, ulm)].body = "nongz"
    /\ Return("Io")
    /\ UNCHANGED <<now, disk, readers, errors, uix, uold, ngen, rpc, rh,
                   tickReaders, cleanups, reqFailed>>
    /\ UNCHANGED <<fsvars, nvars, svars>>

\* extract_mmdb finds no member with the mmdb extension: Ok(false), download
\* gives Ok(None) and update returns Ok.
ExtractNothing ==
    /\ upc = "extract"
    /\ disk[ArchivePath(Cur, ulm)].body = "nommdb"
    /\ Return("Ok")
    /\ UNCHANGED <<now, disk, readers, errors, uix, uold, ngen, rpc, rh,
                   tickReaders, cleanups, reqFailed>>
    /\ UNCHANGED <<fsvars, nvars, svars>>

\* extract_mmdb unpacks the first mmdb member to the mmdb path, replacing
\* what is there.
ExtractMmdb ==
    /\ upc = "extract"
    /\ LET a == disk[ArchivePath(Cur, ulm)] IN
        /\ a.body \in {"good", "badmmdb"}
        /\ disk' = Put(disk, MmdbPath(Cur, ulm),
                       [body |-> IF a.body = "good" THEN "db" ELSE "baddb",
                        data |-> a.data, complete |-> TRUE])
    /\ upc' = "open"
    /\ UNCHANGED <<now, readers, errors, uix, ulm, uold, ngen, rpc, rh,
                   ures, tickReaders, cleanups, reqFailed>>
    /\ UNCHANGED <<fsvars, nvars, svars>>

\* Reader::open_mmap accepts the file.
OpensAsDatabase(file) == file.body = "db"

\* update: what is done with an mmdb that open_mmap rejects.
AfterOpenFailureKeep(d, path) == d
AfterOpenFailure(d, path) == Remove(d, path)

\* update: open_mmap fails; the mmdb is removed and the error returned.
OpenFails ==
    /\ upc = "open"
    /\ ~OpensAsDatabase(disk[MmdbPath(Cur, ulm)])
    /\ disk' = AfterOpenFailure(disk, MmdbPath(Cur, ulm))
    /\ Return("MaxMindDb")
    /\ UNCHANGED <<now, readers, errors, uix, uold, ngen, rpc, rh,
                   tickReaders, cleanups, reqFailed>>
    /\ UNCHANGED <<fsvars, nvars, svars>>

\* A replacement in two steps, which first takes the handle out of the slot.
SwapInAfterTake(slots, edition, h) == [slots EXCEPT ![edition] = NoHandle]
\* out_reader.swap(Some(new)): the slot goes from the old handle to the new
\* one in one store.
SwapIn(slots, edition, h) == [slots EXCEPT ![edition] = h]

\* update: open_mmap succeeds and the new reader is swapped into the slot.
Swap ==
    /\ upc = "open"
    /\ LET f == disk[MmdbPath(Cur, ulm)] IN
        /\ OpensAsDatabase(f)
        /\ readers' = SwapIn(readers, Cur,
                          [ed |-> Cur, ts |-> ulm, gen |-> f.data, body |-> f.body])
    /\ uold' = readers[Cur]
    /\ upc' = "gc"
    /\ UNCHANGED <<now, disk, errors, uix, ulm, ngen, rpc, rh,
                   ures, tickReaders, cleanups, reqFailed>>
    /\ UNCHANGED <<fsvars, nvars, svars>>

\* wait_unused_and_cleanup: weak.upgrade() gives nothing once no request holds
\* the handle (the slot gave it up in the swap).
UnusedNoWait(h) == TRUE
Unused(h) == \A r \in Requests : rh[r] # h

\* cleanup(path): the files it removes.
CleanupTargets(path) == {path, WithAddedExtensionTarGz(path)}

RemoveAll(d, paths) == [p \in DOMAIN d |-> IF p \in paths THEN NoFile ELSE d[p]]

\* wait_unused_and_cleanup returns at once for an empty slot.
NothingToCleanup ==
    /\ upc = "gc"
    /\ uold = NoHandle
    /\ Return("Ok")
    /\ UNCHANGED <<now, disk, readers, errors, uix, uold, ngen, rpc, rh,
                   tickReaders, cleanups, reqFailed>>
    /\ UNCHANGED <<fsvars, nvars, svars>>

\* wait_unused_and_cleanup: the old reader is unused; its files are cleaned up.
Cleanup ==
    /\ upc = "gc"
    /\ uold # NoHandle
    /\ Unused(uold)
    /\ disk' = RemoveAll(disk, CleanupTargets(HandlePath(uold)))
    /\ cleanups' = [cleanups EXCEPT ![HandlePath(uold)] = @ + 1]
    /\ uold' = NoHandle
    /\ Return("Ok")
    /\ UNCHANGED <<now, readers, errors, uix, ngen, rpc, rh,
                   tickReaders, reqFailed>>
    /\ UNCHANGED <<fsvars, nvars, svars>>

\* update_all stores update()'s result in the Error Slot.
StoreResultDropErr(errs, edition, res) == [errs EXCEPT ![edition] = ""]
StoreResult(errs, edition, res) ==
    [errs EXCEPT ![edition] = IF res = "Ok" THEN "" ELSE res]

\* update_all: the loop goes on to the next edition whatever the result.
AfterResult(res) == "loop"

StoreAndContinue ==
    /\ upc = "store"
    /\ errors' = StoreResult(errors, Cur, ures)
    /\ upc' = AfterResult(ures)
    /\ uix' = IF AfterResult(ures) = "loop" THEN uix + 1 ELSE 1
    /\ ures' = "none"
    /\ UNCHANGED <<now, disk, readers, ulm, uold, ngen, rpc, rh,
                   tickReaders, cleanups, reqFailed>>
    /\ UNCHANGED <<fsvars, nvars, svars>>

\* ----------------------------------------------------------------- requests
\* lookup: get_reader loads the current handle of the edition.
LookupBegin(r) ==
    /\ rpc[r] = "idle"
    /\ \E e \in EditionSet :
        /\ readers[e] # NoHandle
        /\ rh' = [rh EXCEPT ![r] = readers[e]]
    /\ rpc' = [rpc EXCEPT ![r] = "lookup"]
    /\ UNCHANGED <<now, disk, readers, errors, upc, uix, ulm, uold, ngen,
                   ures, tickReaders, cleanups, reqFailed>>
    /\ UNCHANGED <<fsvars, nvars, svars>>

\* lookup: the query is answered from the mapping and the handle dropped.
LookupEnd(r) ==
    /\ rpc[r] = "lookup"
    /\ rpc' = [rpc EXCEPT ![r] = "idle"]
    /\ rh' = [rh EXCEPT ![r] = NoHandle]
    /\ UNCHANGED <<now, disk, readers, errors, upc, uix, ulm, uold, ngen,
                   ures, tickReaders, cleanups, reqFailed>>
    /\ UNCHANGED <<fsvars, nvars, svars>>

\* download_mmdb_archive_file: the edition's path, mtime and handle.
GetEditionPathAndMtime(edition) == readers[edition]

DownloadBegin(r) ==
    /\ rpc[r] = "idle"
    /\ \E e \in EditionSet :
        /\ GetEditionPathAndMtime(e) # NoHandle
        /\ rh' = [rh EXCEPT ![r] = GetEditionPathAndMtime(e)]
    /\ rpc' = [rpc EXCEPT ![r] = "open"]
    /\ UNCHANGED <<now, disk, readers, errors, upc, uix, ulm, uold, ngen,
                   ures, tickReaders, cleanups, reqFailed>>
    /\ UNCHANGED <<fsvars, nvars, svars>>

\* download_mmdb_archive_file: File::open of the archive beside the mmdb; an
\* error ends the request.
DownloadOpen(r) ==
    /\ rpc[r] = "open"
    /\ IF Exists(disk, WithExtensionTarGz(HandlePath(rh[r])))
       THEN /\ rpc' = [rpc EXCEPT ![r] = "stream"]
            /\ UNCHANGED <<rh, reqFailed>>
       ELSE /\ rpc' = [rpc EXCEPT ![r] = "idle"]
            /\ rh' = [rh EXCEPT ![r] = NoHandle]
            /\ reqFailed' = TRUE
    /\ UNCHANGED <<now, disk, readers, errors, upc, uix, ulm, uold, ngen,
                   ures, tickReaders, cleanups>>
    /\ UNCHANGED <<fsvars, nvars, svars>>

\* download_mmdb_archive_file: the stream ends and drops the handle.
DownloadEnd(r) ==
    /\ rpc[r] = "stream"
    /\ rpc' = [rpc EXCEPT ![r] = "idle"]
    /\ rh' = [rh EXCEPT ![r] = NoHandle]
    /\ UNCHANGED <<now, disk, readers, errors, upc, uix, ulm, uold, ngen,
                   ures, tickReaders, cleanups, reqFailed>>
    /\ UNCHANGED <<fsvars, nvars, svars>>

Next ==
    \/ TickStart
    \/ TickEnd
    \/ SkipEdition
    \/ SendFails
    \/ RespondNotModified
    \/ RespondHttpError
    \/ Respond200
    \/ RecvFails
    \/ RecvDone
    \/ Persist
    \/ ExtractFails
    \/ ExtractNothing
    \/ ExtractMmdb
    \/ OpenFails
    \/ Swap
    \/ NothingToCleanup
    \/ Cleanup
    \/ StoreAndContinue
    \/ \E r \in Requests : LookupBegin(r)
    \/ \E r \in Requests : LookupEnd(r)
    \/ \E r \in Requests : DownloadBegin(r)
    \/ \E r \in Requests : DownloadOpen(r)
    \/ \E r \in Requests : DownloadEnd(r)

Spec == Init /\ [][Next]_vars

\* ------------------------------------------------------------ FileService
FsTmp == TempPath("tzdata")
InfoPath(info) == ArchivePath(info.tag, info.mtime)

\* The instants a Last-Modified header of the tzdata upstream can carry: the
\* mtime of the version found at startup, and a later one.
LastModifiedValues == {0, MaxFsTime - 1}

\* What an upstream body can be, as far as FileService goes.
FsBodies == {"good", "nongz"}

\* refresh_archive: the fast-skip test on the current version.
FreshEnoughByMtime(info, t, interval) == t - info.mtime < interval
FreshEnough(info, t, interval) == t - info.utime < interval

\* Response::error_for_status: 4xx and 5xx are errors.
IsClientOrServerError(status) == status >= 400 /\ status < 600

\* store_refresh_timestamp: the instant is written to a temp file, which is
\* then renamed to <tag>.timestamp.
StoreRefreshTimestampNoRename(d, tag, ts) ==
    Put(d, FsTmp, [body |-> "timestamp", data |-> ts, complete |-> TRUE])
StoreRefreshTimestamp(d, tag, ts) ==
    Rename(Put(d, FsTmp, [body |-> "timestamp", data |-> ts, complete |-> TRUE]),
           FsTmp, TimestampPath(tag))

\* set_refresh_timestamp: the record the rcu closure puts in the index.
KeepUtime(info, ts, id) == info
BumpUtime(info, ts, id) ==
    IF info # NoInfo /\ info.utime < ts
    THEN [info EXCEPT !.utime = ts, !.id = id]
    ELSE info

\* cleanup_archive: every entry of data_dir whose name starts with
\* <tag>-<mtime>, and the archive itself.
CleanupArchive(d, info) ==
    [p \in DOMAIN d |->
        IF p.tag = info.tag /\ p.ts = info.mtime /\ p.kind \notin {"timestamp", "tmp"}
        THEN NoFile
        ELSE d[p]]

\* find_and_cleanup_archives: per tag the archive with the greatest mtime is
\* kept, the others are cleaned up.
FoundMtimes(d, tag) == {t \in Times \cup FsTimes : Exists(d, ArchivePath(tag, t))}
LatestMtime(d, tag) == CHOOSE m \in FoundMtimes(d, tag) : \A n \in FoundMtimes(d, tag) : n <= m
FoundInfo(d, tag) ==
    IF FoundMtimes(d, tag) = {}
    THEN NoInfo
    ELSE [id |-> 1, tag |-> tag, mtime |-> LatestMtime(d, tag),
          utime |-> IF Exists(d, TimestampPath(tag))
                    THEN d[TimestampPath(tag)].data
                    ELSE LatestMtime(d, tag)]
AfterFindAndCleanup(d) ==
    LET latest == [g \in Tags |->
                     IF FoundMtimes(d, g) = {} THEN -1 ELSE LatestMtime(d, g)] IN
    [p \in DOMAIN d |->
        IF /\ p.kind \notin {"timestamp", "tmp"}
           /\ d[p] # NoFile
           /\ Exists(d, ArchivePath(p.tag, p.ts))
           /\ p.ts # latest[p.tag]
        THEN NoFile
        ELSE d[p]]

\* load_from_archive succeeds: decompress finds its output directory already
\* there, or the archive unpacks.
CanLoad(d, info) ==
    \/ Exists(d, DecompressedPath(InfoPath(info)))
    \/ (Exists(d, InfoPath(info)) /\ d[InfoPath(info)].body = "good")

\* decompress: an existing output directory is reused as it is.
Decompressed(d, info) ==
    LET dir == DecompressedPath(InfoPath(info)) IN
    IF Exists(d, dir)
    THEN d
    ELSE Put(d, dir, [body |-> "zones", data |-> d[InfoPath(info)].data,
                      complete |-> TRUE])

\* load_from_archive: decompress, then compile into the .zoneinfo directory
\* what the output directory of decompress holds.
LoadFromArchive(d, info) ==
    LET dir == DecompressedPath(InfoPath(info)) IN
    Put(Decompressed(d, info), ZoneinfoPath(dir),
        [body |-> "zones", data |-> Decompressed(d, info)[dir].data,
         complete |-> Decompressed(d, info)[dir].complete])

\* decompress: archive.unpack(&out_dir) has created out_dir and written a part
\* of the members.
UnpackBegun(d, info) ==
    Put(d, DecompressedPath(InfoPath(info)),
        [body |-> "zones", data |-> d[InfoPath(info)].data, complete |-> FALSE])

\* decompress: archive.unpack(&out_dir) has written the last member.
UnpackDone(d, info) ==
    LET dir == DecompressedPath(InfoPath(info)) IN
    Put(d, dir, [d[dir] EXCEPT !.complete = TRUE])

\* compile runs zic on an output directory that decompress found there and
\* that an unpack stopped before its end has left: zic fails when a file it
\* is given is missing, and compiles what is there otherwise.
PartlyUnpacked(d, info) ==
    /\ Exists(d, DecompressedPath(InfoPath(info)))
    /\ ~d[DecompressedPath(InfoPath(info))].complete

\* load_from_dir: the table holds the zones of the compiled directory.
LoadedZones(d, info) ==
    [from |-> "archive", mtime |-> info.mtime,
     complete |-> d[ZoneinfoPath(DecompressedPath(InfoPath(info)))].complete]

\* NamedTempFile::new_in picks a fresh random name: a temp file left by a
\* stopped process keeps its own name and is never written again.
LeftoverTmp == TempPath("leftover")
Orphaned(d) == IF Exists(d, FsTmp) THEN Rename(d, FsTmp, LeftoverTmp) ELSE d

\* refresh_archive returns ret to its caller.
FsReturn(ret) ==
    /\ fpc' = "idle"
    /\ ftag' = ""
    /\ finfo' = NoInfo
    /\ fmtime' = 0
    /\ fstatus' = 0
    /\ lastCall' = [lastCall EXCEPT !.ret = ret, !.cur = archives'[ftag] # NoInfo]

\* refresh_archive is called and reads the clock.
RefreshCalled(t) ==
    /\ fpc = "idle"
    /\ tzpc = "idle"
    /\ ncalls < MaxRefreshes
    /\ t >= now
    /\ now' = t
    /\ ncalls' = ncalls + 1
    /\ prevCall' = lastCall

\* refresh_archive: the current version is fresh enough: Ok(None).
RefreshSkip(tag) ==
    /\ \E t \in FsTimes :
        /\ RefreshCalled(t)
        /\ archives[tag] # NoInfo
        /\ FreshEnough(archives[tag], t, MinInterval)
        /\ lastCall' = [t |-> t, sent |-> FALSE, ret |-> "None", cur |-> TRUE]
    /\ UNCHANGED <<disk, archives, fpc, ftag, finfo, fmtime, gcs, cpc, ch, nid,
                   restarts, httpCalls>>
    /\ UNCHANGED <<mmvars, nvars, svars>>
    /\ UNCHANGED fstatus
    /\ UNCHANGED tzvars

\* refresh_archive: the request is sent (with If-Modified-Since when there is
\* a current version).
RefreshSend(tag) ==
    /\ \E t \in FsTimes :
        /\ RefreshCalled(t)
        /\ ~(archives[tag] # NoInfo /\ FreshEnough(archives[tag], t, MinInterval))
        /\ lastCall' = [t |-> t, sent |-> TRUE, ret |-> "pending", cur |-> FALSE]
    /\ finfo' = archives[tag]
    /\ ftag' = tag
    /\ fpc' = "sent"
    /\ httpCalls' = httpCalls + 1
    /\ UNCHANGED <<disk, archives, fmtime, gcs, cpc, ch, nid, restarts>>
    /\ UNCHANGED <<mmvars, nvars, svars>>
    /\ UNCHANGED fstatus
    /\ UNCHANGED tzvars

\* refresh_archive: req.send() fails.
FsSendFails ==
    /\ fpc = "sent"
    /\ UNCHANGED <<now, disk, archives, gcs, cpc, ch, nid, restarts,
                   httpCalls, ncalls, prevCall>>
    /\ UNCHANGED <<mmvars, nvars, svars>>
    /\ UNCHANGED tzvars
    /\ FsReturn("Err")

\* refresh_archive: error_for_status gives the error.
FsRespondError ==
    /\ fpc = "sent"
    /\ \E status \in StatusCodes : IsClientOrServerError(status)
    /\ UNCHANGED <<now, disk, archives, gcs, cpc, ch, nid, restarts,
                   httpCalls, ncalls, prevCall>>
    /\ UNCHANGED <<mmvars, nvars, svars>>
    /\ UNCHANGED tzvars
    /\ FsReturn("Err")

\* refresh_archive: 304; set_refresh_timestamp stores the instant and puts a
\* record with the new utime in the index: Ok(None).
FsRespondNotModified ==
    /\ fpc = "sent"
    /\ disk' = StoreRefreshTimestamp(disk, ftag, now)
    /\ archives' = [archives EXCEPT ![ftag] = BumpUtime(@, now, nid + 1)]
    /\ nid' = IF archives'[ftag] # archives[ftag] THEN nid + 1 ELSE nid
    /\ UNCHANGED <<now, gcs, cpc, ch, restarts, httpCalls, ncalls, prevCall>>
    /\ UNCHANGED <<mmvars, nvars, svars>>
    /\ UNCHANGED tzvars
    /\ FsReturn("None")

\* refresh_archive: any other status is a download; Last-Modified is parsed
\* (absent or unparseable: now), the temp file is created and the first chunks
\* are written.
FsRespond200 ==
    /\ fpc = "sent"
    /\ \E status \in StatusCodes :
        /\ status # 304
        /\ ~IsClientOrServerError(status)
        /\ fstatus' = status
    /\ \E body \in FsBodies, hdr \in LastModifiedValues \cup {-1} :
        LET mtime == IF hdr = -1 THEN now ELSE hdr IN
        /\ fmtime' = mtime
        /\ disk' = Put(disk, ChunkTarget(FsTmp, ArchivePath(ftag, mtime)),
                       [body |-> body, data |-> httpCalls, complete |-> FALSE])
    /\ fpc' = "recv"
    /\ UNCHANGED <<now, archives, ftag, finfo, gcs, cpc, ch, nid, restarts,
                   httpCalls, ncalls, prevCall, lastCall>>
    /\ UNCHANGED <<mmvars, nvars, svars>>
    /\ UNCHANGED tzvars

\* refresh_archive: res.chunk() fails; the temp file is dropped with its path.
FsRecvFails ==
    /\ fpc = "recv"
    /\ disk' = Remove(disk, FsTmp)
    /\ UNCHANGED <<now, archives, gcs, cpc, ch, nid, restarts,
                   httpCalls, ncalls, prevCall>>
    /\ UNCHANGED <<mmvars, nvars, svars>>
    /\ UNCHANGED tzvars
    /\ FsReturn("Err")

\* refresh_archive: the last chunk is written.
FsRecvDone ==
    /\ fpc = "recv"
    /\ LET target == ChunkTarget(FsTmp, ArchivePath(ftag, fmtime)) IN
        disk' = Put(disk, target, [disk[target] EXCEPT !.complete = TRUE])
    /\ fpc' = "persist"
    /\ UNCHANGED <<now, archives, ftag, finfo, fmtime, gcs, cpc, ch, nid, restarts,
                   httpCalls, ncalls, prevCall, lastCall>>
    /\ UNCHANGED <<mmvars, nvars, svars>>
    /\ UNCHANGED fstatus
    /\ UNCHANGED tzvars

\* refresh_archive: persist_named_temp_file renames the temp file to
\* <tag>-<mtime>.tar.gz.
FsPersist ==
    /\ fpc = "persist"
    /\ disk' = IF Exists(disk, FsTmp)
               THEN Rename(disk, FsTmp, ArchivePath(ftag, fmtime))
               ELSE disk
    /\ fpc' = "stamp"
    /\ UNCHANGED <<now, archives, ftag, finfo, fmtime, gcs, cpc, ch, nid, restarts,
                   httpCalls, ncalls, prevCall, lastCall>>
    /\ UNCHANGED <<mmvars, nvars, svars>>
    /\ UNCHANGED fstatus
    /\ UNCHANGED tzvars

\* refresh_archive: store_refresh_timestamp(tag, now).
FsStoreTimestamp ==
    /\ fpc = "stamp"
    /\ disk' = StoreRefreshTimestamp(disk, ftag, now)
    /\ fpc' = "publish"
    /\ UNCHANGED <<now, archives, ftag, finfo, fmtime, gcs, cpc, ch, nid, restarts,
                   httpCalls, ncalls, prevCall, lastCall>>
    /\ UNCHANGED <<mmvars, nvars, svars>>
    /\ UNCHANGED fstatus
    /\ UNCHANGED tzvars

\* A record whose utime is the mtime of the download.
NewInfoUtimeIsMtime(tag, mtime, t, id) ==
    [id |-> id, tag |-> tag, mtime |-> mtime, utime |-> mtime]
\* refresh_archive: new_info has the mtime of the download and utime = now.
NewInfo(tag, mtime, t, id) ==
    [id |-> id, tag |-> tag, mtime |-> mtime, utime |-> t]

\* refresh_archive: the new record is put in the index, a cleanup task is
\* spawned for the record loaded at the start of the call: Ok(Some(new_info)).
FsPublish ==
    /\ fpc = "publish"
    /\ archives' = [archives EXCEPT ![ftag] = NewInfo(ftag, fmtime, now, nid + 1)]
    /\ nid' = nid + 1
    /\ gcs' = IF finfo # NoInfo THEN gcs \cup {finfo} ELSE gcs
    /\ tzpc' = "load"
    /\ tzinfo' = archives'[ftag]
    /\ UNCHANGED <<now, disk, cpc, ch, restarts, httpCalls, ncalls, prevCall, timezones>>
    /\ UNCHANGED <<mmvars, nvars, svars>>
    /\ FsReturn("Some")

\* The cleanup task: info_weak.upgrade() gives nothing once neither the index,
\* nor a call of refresh_archive, nor a caller holds the record.
FsUnused(info) ==
    /\ \A g \in Tags : archives[g] # info
    /\ finfo # info
    /\ tzinfo # info
    /\ \A c \in Callers : ch[c] # info

\* The cleanup task finds its record unused and runs cleanup_archive.
FsCleanup ==
    /\ \E info \in gcs :
        /\ FsUnused(info)
        /\ disk' = CleanupArchive(disk, info)
        /\ gcs' = gcs \ {info}
    /\ UNCHANGED <<now, archives, fpc, ftag, finfo, fmtime, cpc, ch, nid, restarts,
                   httpCalls, ncalls, prevCall, lastCall>>
    /\ UNCHANGED <<mmvars, nvars, svars>>
    /\ UNCHANGED fstatus
    /\ UNCHANGED tzvars

\* get_latest_archive: a caller gets the current record of a tag.
GetLatestArchive(c) ==
    /\ cpc[c] = "idle"
    /\ \E g \in FsTags :
        /\ archives[g] # NoInfo
        /\ ch' = [ch EXCEPT ![c] = archives[g]]
    /\ cpc' = [cpc EXCEPT ![c] = "got"]
    /\ UNCHANGED <<now, disk, archives, fpc, ftag, finfo, fmtime, gcs, nid, restarts,
                   httpCalls, ncalls, prevCall, lastCall>>
    /\ UNCHANGED <<mmvars, nvars, svars>>
    /\ UNCHANGED fstatus
    /\ UNCHANGED tzvars

\* download_archive: File::open(info.path); an error ends the caller.
DownloadArchiveOpen(c) ==
    /\ cpc[c] = "got"
    /\ IF Exists(disk, InfoPath(ch[c]))
       THEN /\ cpc' = [cpc EXCEPT ![c] = "stream"]
            /\ UNCHANGED ch
       ELSE /\ cpc' = [cpc EXCEPT ![c] = "idle"]
            /\ ch' = [ch EXCEPT ![c] = NoInfo]
    /\ UNCHANGED <<now, disk, archives, fpc, ftag, finfo, fmtime, gcs, nid, restarts,
                   httpCalls, ncalls, prevCall, lastCall>>
    /\ UNCHANGED <<mmvars, nvars, svars>>
    /\ UNCHANGED fstatus
    /\ UNCHANGED tzvars

\* The caller drops its record: 304 to If-Modified-Since, or the stream ends.
CallerDone(c) ==
    /\ cpc[c] \in {"got", "stream"}
    /\ cpc' = [cpc EXCEPT ![c] = "idle"]
    /\ ch' = [ch EXCEPT ![c] = NoInfo]
    /\ UNCHANGED <<now, disk, archives, fpc, ftag, finfo, fmtime, gcs, nid, restarts,
                   httpCalls, ncalls, prevCall, lastCall>>
    /\ UNCHANGED <<mmvars, nvars, svars>>
    /\ UNCHANGED fstatus
    /\ UNCHANGED tzvars

\* TimezoneService::update: load_from_archive of the returned record succeeds
\* and the zones are stored.
TzLoadOk ==
    /\ \/ /\ tzpc = "load"
          /\ Exists(disk, DecompressedPath(InfoPath(tzinfo)))
          /\ disk' = LoadFromArchive(disk, tzinfo)
       \/ /\ tzpc = "unpack"
          /\ Exists(disk, DecompressedPath(InfoPath(tzinfo)))
          /\ disk' = LoadFromArchive(UnpackDone(disk, tzinfo), tzinfo)
    /\ timezones' = LoadedZones(disk', tzinfo)
    /\ tzpc' = "idle"
    /\ tzinfo' = NoInfo
    /\ UNCHANGED <<now, archives, fpc, ftag, finfo, fmtime, gcs, cpc, ch, nid, restarts,
                   httpCalls, ncalls, prevCall, lastCall>>
    /\ UNCHANGED <<mmvars, nvars, svars>>
    /\ UNCHANGED fstatus

\* TimezoneService::update: decompress finds no output directory, opens the
\* archive and starts to unpack it.
TzUnpack ==
    /\ tzpc = "load"
    /\ ~Exists(disk, DecompressedPath(InfoPath(tzinfo)))
    /\ CanLoad(disk, tzinfo)
    /\ disk' = UnpackBegun(disk, tzinfo)
    /\ tzpc' = "unpack"
    /\ UNCHANGED <<now, archives, fpc, ftag, finfo, fmtime, gcs, cpc, ch, nid, restarts,
                   httpCalls, ncalls, prevCall, lastCall, timezones, tzinfo>>
    /\ UNCHANGED <<mmvars, nvars, svars>>
    /\ UNCHANGED fstatus

\* TimezoneService::update: load_from_archive fails (the archive does not
\* unpack, zic fails on a partly unpacked directory, or the directory was
\* removed under the unpack); the zones in use stay.
TzLoadFails ==
    /\ \/ tzpc = "load" /\ ~CanLoad(disk, tzinfo)
       \/ tzpc = "load" /\ PartlyUnpacked(disk, tzinfo)
       \/ tzpc = "unpack" /\ ~Exists(disk, DecompressedPath(InfoPath(tzinfo)))
    /\ tzpc' = "idle"
    /\ tzinfo' = NoInfo
    /\ UNCHANGED <<now, disk, archives, fpc, ftag, finfo, fmtime, gcs, cpc, ch, nid,
                   restarts, httpCalls, ncalls, prevCall, lastCall, timezones>>
    /\ UNCHANGED <<mmvars, nvars, svars>>
    /\ UNCHANGED fstatus

\* The process stops where it is and starts again: tasks, callers and records
\* are gone, data_dir is as it was left, FileService::new builds the index
\* with find_and_cleanup_archives and TimezoneService::new loads the zones of
\* the latest archive (the system's when that fails).
Restart ==
    /\ restarts < MaxRestarts
    /\ restarts' = restarts + 1
    /\ archives' = [g \in Tags |-> FoundInfo(disk, g)]
    /\ LET found == FoundInfo(disk, "tzdata")
           d == AfterFindAndCleanup(Orphaned(disk)) IN
        \E zicOk \in BOOLEAN :
            IF found # NoInfo /\ CanLoad(d, found)
                              /\ (PartlyUnpacked(d, found) => zicOk)
            THEN /\ disk' = LoadFromArchive(d, found)
                 /\ timezones' = LoadedZones(disk', found)
            ELSE /\ disk' = d
                 /\ timezones' = SystemZones
    /\ fpc' = "idle"
    /\ ftag' = ""
    /\ finfo' = NoInfo
    /\ fmtime' = 0
    /\ fstatus' = 0
    /\ gcs' = {}
    /\ cpc' = [c \in Callers |-> "idle"]
    /\ ch' = [c \in Callers |-> NoInfo]
    /\ nid' = 1
    /\ prevCall' = NoCall
    /\ lastCall' = NoCall
    /\ tzpc' = "idle"
    /\ tzinfo' = NoInfo
    /\ UNCHANGED <<now, httpCalls, ncalls>>
    /\ UNCHANGED <<mmvars, nvars, svars>>

InitFS ==
    /\ now = 0
    /\ \E found \in SUBSET FsTags :
        /\ disk = InitDisk(found)
        /\ InitFileService(found)
    /\ InitMaxMind({})
    /\ NamesOff
    /\ IndexOff
    /\ StartupOff

NextFS ==
    \/ \E g \in FsTags : RefreshSkip(g)
    \/ \E g \in FsTags : RefreshSend(g)
    \/ FsSendFails
    \/ FsRespondError
    \/ FsRespondNotModified
    \/ FsRespond200
    \/ FsRecvFails
    \/ FsRecvDone
    \/ FsPersist
    \/ FsStoreTimestamp
    \/ FsPublish
    \/ FsCleanup
    \/ TzUnpack
    \/ TzLoadOk
    \/ TzLoadFails
    \/ \E c \in Callers : GetLatestArchive(c)
    \/ \E c \in Callers : DownloadArchiveOpen(c)
    \/ \E c \in Callers : CallerDone(c)
    \/ Restart

SpecFS == InitFS /\ [][NextFS]_vars

\* ------------------------------------------------- archive file names
\* A file name is a sequence of tokens: single characters, and the literal
\* words of the pattern ("tar", "gz", "timestamp").  A time of this part is
\* a record of whole seconds and a sub-second part; TsDigits digits stand for
\* the fourteen of the timestamp format.
TsDigits == 2
DigitChars == <<"0", "1", "2", "3", "4", "5", "6", "7", "8", "9">>
Digits == {DigitChars[i] : i \in 1..10}
SingleChars == Digits \cup {"a", "t", "z", "-", ".", "_"}
TagTokens == Digits \cup {"a", "t", "z", "-", "tar", "gz", "timestamp"}
WholeSecond(sec) == [s |-> sec, ns |-> 0]
TimeLess(a, b) == a.s < b.s \/ (a.s = b.s /\ a.ns < b.ns)

RECURSIVE Pow10(_)
Pow10(n) == IF n = 0 THEN 1 ELSE 10 * Pow10(n - 1)
DigitValue(c) == CHOOSE i \in 0..9 : DigitChars[i + 1] = c

\* mtime.format("%Y%m%d%H%M%S"): the whole seconds, zero padded; the
\* sub-second part is not written.
FormatTimestamp(mtime) ==
    [i \in 1..TsDigits |-> DigitChars[((mtime.s \div Pow10(TsDigits - i)) % 10) + 1]]

\* NaiveDateTime::parse_from_str(.., "%Y%m%d%H%M%S").and_utc()
RECURSIVE DigitsValue(_)
DigitsValue(digits) ==
    IF digits = <<>> THEN 0
    ELSE 10 * DigitsValue(SubSeq(digits, 1, Len(digits) - 1)) + DigitValue(digits[Len(digits)])
ParseTimestamp(digits) == WholeSecond(DigitsValue(digits))

\* format!("{tag}-{}.tar.gz", mtime.format(TIMESTAMP_FORMAT))
ArchiveFileName(tag, mtime) ==
    tag \o <<"-">> \o FormatTimestamp(mtime) \o <<".", "tar", ".", "gz">>

\* format!("{}-{}", info.tag, info.mtime.format(TIMESTAMP_FORMAT))
CleanupPrefix(info) == info.tag \o <<"-">> \o FormatTimestamp(info.mtime)

\* ^([A-Za-z0-9-]+)-([0-9]{14})\.tar.gz$ : the first dot is escaped, the
\* second one is not and matches any single character.
MatchesArchiveName(name) ==
    LET n == Len(name) IN
    /\ n >= TsDigits + 6
    /\ name[n] = "gz"
    /\ name[n - 1] \in SingleChars
    /\ name[n - 2] = "tar"
    /\ name[n - 3] = "."
    /\ \A i \in (n - 3 - TsDigits)..(n - 4) : name[i] \in Digits
    /\ name[n - 4 - TsDigits] = "-"
    /\ \A i \in 1..(n - 5 - TsDigits) : name[i] \in TagTokens

ArchiveInfoFromPath(name) ==
    IF MatchesArchiveName(name)
    THEN [tag   |-> SubSeq(name, 1, Len(name) - 5 - TsDigits),
          path  |-> name,
          mtime |-> ParseTimestamp(SubSeq(name, Len(name) - 3 - TsDigits, Len(name) - 4))]
    ELSE NoArchive

StartsWith(name, prefix) ==
    Len(name) >= Len(prefix) /\ SubSeq(name, 1, Len(prefix)) = prefix

\* cleanup_archive: every entry whose name starts with the prefix, but for
\* the archive itself, is removed by cleanup_data_dir; then the archive is.
CleanupArchiveNames(ns, info) ==
    {n \in ns : ~StartsWith(n, CleanupPrefix(info))} \ {info.path}

\* The comparison the other way round.
OldLosesReversed(old, info) == TimeLess(info.mtime, old.mtime)
\* old.mtime < info.mtime: the record found earlier loses.
OldLoses(old, info) == TimeLess(old.mtime, info.mtime)

NameTags == {<<"t", "z">>, <<"a", "-", "0", "7">>}
NameSeconds == {7, 12}
SubSecond == 5
ExtractedName(tag, mtime) == tag \o <<"-">> \o FormatTimestamp(mtime)
StrayName(tag, mtime) ==
    tag \o <<"-">> \o FormatTimestamp(mtime) \o <<".", "tar", "_", "gz">>
TimestampName(tag) == tag \o <<".", "timestamp">>
InitialNames ==
    {ArchiveFileName(<<"t", "z">>, WholeSecond(sec)) : sec \in NameSeconds}
    \cup {ExtractedName(<<"t", "z">>, WholeSecond(sec)) : sec \in NameSeconds}
    \cup {ArchiveFileName(<<"a", "-", "0", "7">>, WholeSecond(12)),
          StrayName(<<"t", "z">>, WholeSecond(12)),
          TimestampName(<<"t", "z">>)}
\* The times a refresh can assign: a parsed Last-Modified, which has whole
\* seconds, or the clock, which has not.
RefreshMtimes ==
    {WholeSecond(sec) : sec \in NameSeconds} \cup {[s |-> 12, ns |-> SubSecond]}

InitNames ==
    /\ now = 0
    /\ disk = InitDisk({})
    /\ InitMaxMind({})
    /\ InitFileService({})
    /\ StartupOff
    /\ IndexOff
    /\ names \in SUBSET InitialNames
    /\ todo = {} /\ out = {} /\ dpc = "running" /\ names0 = {}
    /\ published = NoArchive
    /\ req = NoRequest

\* refresh_archive on 2xx: the archive is persisted under the name made from
\* (tag, mtime) and the record is published.
RefreshInstall(tag, mtime) ==
    /\ dpc = "running"
    /\ published = NoArchive
    /\ names' = names \cup {ArchiveFileName(tag, mtime)}
    /\ published' = [tag |-> tag, path |-> ArchiveFileName(tag, mtime), mtime |-> mtime]
    /\ UNCHANGED <<todo, out, dpc, names0, req, ivars>>
    /\ UNCHANGED <<now, disk, mmvars, fsvars, svars>>

\* httpdate::fmt_http_date: an HTTP date has whole seconds.
FmtHttpDate(t) == WholeSecond(t.s)

\* A request that never carries the header.
CarriesHeaderNever(info) == FALSE
\* refresh_archive: `if let Some(info) = &info`: the header is set when the
\* index has a version of the tag.
CarriesHeader(info) == info # NoArchive

\* refresh_archive up to req.send(): with a current version that is fresh
\* enough (fresh: the outcome of the comparison with the clock) the call
\* returns without a request; otherwise the request is sent, with
\* If-Modified-Since when there is a current version.
SendRequest(fresh) ==
    /\ dpc = "running"
    /\ req' = IF published # NoArchive /\ fresh
              THEN [sent |-> FALSE, skipped |-> TRUE, ims |-> NoTime]
              ELSE [sent |-> TRUE, skipped |-> FALSE,
                    ims |-> IF CarriesHeader(published)
                            THEN FmtHttpDate(published.mtime)
                            ELSE NoTime]
    /\ UNCHANGED <<names, todo, out, dpc, names0, published, ivars>>
    /\ UNCHANGED <<now, disk, mmvars, fsvars, svars>>

\* The process ends and starts again: FileService::new reads the directory.
DiscoverStart ==
    /\ dpc = "running"
    /\ dpc' = "scan"
    /\ todo' = names
    /\ names0' = names
    /\ out' = {}
    /\ UNCHANGED <<names, published, req, ivars>>
    /\ UNCHANGED <<now, disk, mmvars, fsvars, svars>>

\* find_and_cleanup_archive_by_dir_entry for the entry read_dir gives next.
DiscoverEntry(e) ==
    /\ dpc = "scan"
    /\ e \in todo
    /\ todo' = todo \ {e}
    /\ LET info == ArchiveInfoFromPath(e)
           olds == {o \in out : o.tag = info.tag}
       IN  IF info = NoArchive
           THEN UNCHANGED <<names, out>>
           ELSE IF olds = {}
           THEN out' = out \cup {info} /\ UNCHANGED names
           ELSE LET old == CHOOSE o \in olds : TRUE IN
                IF OldLoses(old, info)
                THEN /\ out' = (out \ {old}) \cup {info}
                     /\ names' = CleanupArchiveNames(names, old)
                ELSE /\ out' = out
                     /\ names' = CleanupArchiveNames(names, info)
    /\ UNCHANGED <<dpc, names0, published, req, ivars>>
    /\ UNCHANGED <<now, disk, mmvars, fsvars, svars>>

DiscoverDone ==
    /\ dpc = "scan"
    /\ todo = {}
    /\ dpc' = "done"
    /\ UNCHANGED <<names, todo, out, names0, published, req, ivars>>
    /\ UNCHANGED <<now, disk, mmvars, fsvars, svars>>

NextNames ==
    \/ \E tag \in NameTags, mtime \in RefreshMtimes : RefreshInstall(tag, mtime)
    \/ DiscoverStart
    \/ \E e \in InitialNames \cup {ArchiveFileName(tag, mtime) : tag \in NameTags, mtime \in RefreshMtimes} :
            DiscoverEntry(e)
    \/ DiscoverDone
    \/ \E fresh \in BOOLEAN : SendRequest(fresh)

SpecNames == InitNames /\ [][NextNames]_vars

\* ---------------------------------------------- MaxMindService: startup
\* The versions data_dir can hold when the process starts.
BootTimes == {0, 1}
\* Two versions of the first edition, one of the second.
BootVersions == {<<Editions[1], t>> : t \in BootTimes} \cup {<<Editions[2], 0>>}
BootFile(kind, content, t) ==
    IF content = "absent" \/ (kind = "tar.gz" /\ content = "dbonly") THEN NoFile
    ELSE [body |-> IF kind = "mmdb" THEN (IF content = "dbonly" THEN "db" ELSE content)
                   ELSE IF content = "db" THEN "good" ELSE "badmmdb",
          data |-> t, complete |-> TRUE]
\* Whatever is on disk: each version is absent, a database, or a file
\* open_mmap rejects, with its archive beside it; the oldest one can also be
\* a database that was put there without its archive.
BootContents(v) ==
    IF v[2] = 0 THEN {"absent", "db", "baddb", "dbonly"} ELSE {"absent", "db", "baddb"}
BootDisk(content) ==
    [p \in AllPaths |->
        IF p.kind \in {"mmdb", "tar.gz"} /\ <<p.tag, p.ts>> \in BootVersions
        THEN BootFile(p.kind, content[<<p.tag, p.ts>>], p.ts)
        ELSE NoFile]

\* enumerate_databases: the mtimes of the edition's .mmdb files.
Versions(d, edition) == {t \in Times : Exists(d, MmdbPath(edition, t))}
Newest(ts) == CHOOSE t \in ts : \A u \in ts : u <= t

\* AHashMap::insert
Insert(f, k, v) == [x \in DOMAIN f \cup {k} |-> IF x = k THEN v ELSE f[x]]
\* A map that gets a slot only for an edition that has a reader.
ReaderSlotsIfLoaded(rs, edition, reader) ==
    IF reader = NoHandle THEN rs ELSE Insert(rs, edition, reader)
\* out.insert(edition.clone(), ArcSwapOption::from(reader))
ReaderSlots(rs, edition, reader) == Insert(rs, edition, reader)

\* load_all_latest, the loop over an edition's versions, newest first: the
\* first one that loads becomes the reader and clears the error; one that
\* does not load leaves its message and is cleaned up; the versions after
\* the reader are cleaned up.
RECURSIVE LoadVersions(_, _, _, _, _)
LoadVersions(d, edition, ts, reader, err) ==
    IF ts = {} THEN [disk |-> d, reader |-> reader, err |-> err]
    ELSE LET t == Newest(ts)
             path == MmdbPath(edition, t)
         IN  IF reader # NoHandle
             THEN LoadVersions(RemoveAll(d, CleanupTargets(path)), edition,
                               ts \ {t}, reader, err)
             ELSE IF OpensAsDatabase(d[path])
             THEN LoadVersions(d, edition, ts \ {t},
                               [ed |-> edition, ts |-> t, gen |-> d[path].data,
                                body |-> d[path].body], "")
             ELSE LoadVersions(RemoveAll(d, CleanupTargets(path)), edition,
                               ts \ {t}, NoHandle, "MaxMindDb")
LoadLatest(d, edition) ==
    LoadVersions(d, edition, Versions(d, edition), NoHandle, "")

\* The size of a file stands for its content: the number of the download or
\* of the version it came from.  No size: None.
NoSize == 0 - 1
\* load: file_size is the length of the .mmdb, archive_file_size that of the
\* .tar.gz beside it when there is one.
SizesAt(d, h) ==
    IF h = NoHandle THEN [file |-> NoSize, archive |-> NoSize]
    ELSE [file    |-> d[HandlePath(h)].data,
          archive |-> IF Exists(d, WithExtensionTarGz(HandlePath(h)))
                      THEN d[WithExtensionTarGz(HandlePath(h))].data
                      ELSE NoSize]

InitStartup ==
    /\ now = 0
    /\ \E content \in {c \in [BootVersions -> {"absent", "db", "baddb", "dbonly"}] :
                            \A v \in BootVersions : c[v] \in BootContents(v)} :
        disk = BootDisk(content)
    /\ disk0 = disk
    /\ readers = <<>>
    /\ errors = <<>>
    /\ tickReaders = <<>>
    /\ upc = "idle" /\ uix = 1 /\ ulm = 0 /\ uold = NoHandle /\ ngen = 0
    /\ rpc = [r \in Requests |-> "idle"]
    /\ rh = [r \in Requests |-> NoHandle]
    /\ ures = "none"
    /\ cleanups = [p \in MmdbPaths |-> 0]
    /\ reqFailed = FALSE
    /\ InitFileService({})
    /\ NamesOff
    /\ IndexOff
    /\ bpc = "load" /\ bix = 1
    /\ lq = "" /\ lres = "none" /\ lstatus = 0 /\ bupd = NoUpdate
    /\ cfg \in [account : BOOLEAN, url : BOOLEAN]
    /\ updater = "none"
    /\ hsize = <<>> /\ lstat = <<>>

\* load_all_latest: the body of the loop for one configured edition; after
\* the last one the service is built.
LoadEdition ==
    /\ bpc = "load"
    /\ LET edition == Editions[bix]
           r == LoadLatest(disk, edition)
       IN  /\ disk' = r.disk
           /\ readers' = ReaderSlots(readers, edition, r.reader)
           /\ errors' = Insert(errors, edition, r.err)
           /\ hsize' = Insert(hsize, edition, SizesAt(disk, r.reader))
    /\ IF bix = Len(Editions)
       THEN bpc' = "start" /\ bix' = bix
       ELSE bpc' = bpc /\ bix' = bix + 1
    /\ UNCHANGED <<now, upc, uix, ulm, uold, ngen, rpc, rh, ures, tickReaders,
                   cleanups, reqFailed>>
    /\ UNCHANGED <<disk0, lq, lres, lstatus, bupd, cfg, updater, lstat>>
    /\ UNCHANGED <<fsvars, nvars>>

\* Auto-update only with an account id.
AutoUpdateAccountOnly(c) == c.account
\* AppConfig::load_from_env: auto_update
AutoUpdate(c) == c.account \/ c.url

\* main: start_updater is called once the services are built; it spawns the
\* updater task unless auto-update is disabled.
StartUpdater ==
    /\ bpc = "start"
    /\ bpc' = "serving"
    /\ updater' = IF AutoUpdate(cfg) THEN "spawned" ELSE "disabled"
    /\ UNCHANGED <<now, disk, mmvars, fsvars, nvars>>
    /\ UNCHANGED <<bix, disk0, lq, lres, lstatus, bupd, cfg, hsize, lstat>>

\* default_edition: the first configured edition.
DefaultEdition == Editions[1]
\* The edition parameter taken as it is, omitted or not.
ResolveEditionAsGiven(q) == q
\* edition.or_else(|| self.default_edition())
ResolveEdition(q) == IF q = "" THEN DefaultEdition ELSE q

\* get_reader
GetReader(q) ==
    IF ResolveEdition(q) \notin DOMAIN readers THEN "UnknownEdition"
    ELSE IF readers[ResolveEdition(q)] = NoHandle THEN "MissingDatabase"
    ELSE "Ok"

\* What the reader's lookup can give: a record, no record, an error.
LookupOutcomes == {"Some", "None", "MaxMindDb"}

\* lookup_geoip: the status of the answer.
HttpStatus(res) ==
    CASE res \in {"Some", "None"} -> 200
      [] res = "UnknownEdition" -> 404
      [] res = "MissingDatabase" -> 503
      [] OTHER -> 500

\* lookup_geoip with the edition parameter q.
LookupGeoip(q, outcome) ==
    /\ bpc = "serving"
    /\ lq' = q
    /\ lres' = IF GetReader(q) = "Ok" THEN outcome ELSE GetReader(q)
    /\ lstatus' = HttpStatus(lres')
    /\ lstat' = <<>>
    /\ UNCHANGED <<now, disk, mmvars, fsvars, nvars>>
    /\ UNCHANGED <<bpc, bix, disk0, bupd, cfg, updater, hsize>>

\* An entry whose file_size is that of the archive.
EditionStatusArchiveAsFile(edition, far) ==
    [edition |-> edition, timestamp |-> NoSize, file_size |-> hsize[edition].archive,
     archive_file_size |-> hsize[edition].archive, error |-> errors[edition]]
\* get_edition_status: timestamp is the build_epoch of the reader in the slot
\* (None when from_timestamp_secs cannot represent it: far), the sizes are
\* those kept in the reader, error is the content of the Error Slot.
EditionStatus(edition, far) ==
    [edition           |-> edition,
     timestamp         |-> IF edition \in DOMAIN readers /\ readers[edition] # NoHandle
                              /\ edition \notin far
                           THEN readers[edition].gen ELSE NoSize,
     file_size         |-> IF edition \in DOMAIN readers /\ readers[edition] # NoHandle
                           THEN hsize[edition].file ELSE NoSize,
     archive_file_size |-> IF edition \in DOMAIN readers /\ readers[edition] # NoHandle
                           THEN hsize[edition].archive ELSE NoSize,
     error             |-> IF edition \in DOMAIN errors THEN errors[edition] ELSE ""]

\* status(): one entry for each configured edition, in the configured order.
GetStatus(far) ==
    /\ bpc = "serving"
    /\ lstat' = [i \in 1..Len(Editions) |-> EditionStatus(Editions[i], far)]
    /\ lq' = "" /\ lres' = "none" /\ lstatus' = 0
    /\ UNCHANGED <<now, disk, mmvars, fsvars, nvars>>
    /\ UNCHANGED <<bpc, bix, disk0, bupd, cfg, updater, hsize>>

\* The version an update installs.
NewVersion(edition) == [ed |-> edition, ts |-> MaxTime, gen |-> MaxTime, body |-> "db"]

\* update_all visits an edition: update finds the slot, download and open
\* end in one of their outcomes (nothing new, an error, a swap with the
\* cleanup of the prior version), and the result goes to the Error Slot.
UpdateEdition(edition, outcome) ==
    /\ bpc = "serving"
    /\ updater = "spawned"
    /\ LET res == IF edition \notin DOMAIN readers THEN "UnknownEdition"
                  ELSE IF outcome = "Swapped" THEN "Ok" ELSE outcome
       IN  /\ bupd' = [ed |-> edition, res |-> res]
           /\ errors' = IF edition \in DOMAIN errors
                        THEN StoreResult(errors, edition, res)
                        ELSE errors
           /\ IF edition \in DOMAIN readers /\ outcome = "Swapped"
                    /\ readers[edition] # NewVersion(edition)
              THEN /\ readers' = SwapIn(readers, edition, NewVersion(edition))
                   /\ disk' = LET installed ==
                                    Put(Put(disk, ArchivePath(edition, MaxTime),
                                            [body |-> "good", data |-> MaxTime, complete |-> TRUE]),
                                        MmdbPath(edition, MaxTime),
                                        [body |-> "db", data |-> MaxTime, complete |-> TRUE])
                              IN  IF readers[edition] = NoHandle THEN installed
                                  ELSE RemoveAll(installed,
                                                 CleanupTargets(HandlePath(readers[edition])))
                   /\ hsize' = [hsize EXCEPT ![edition] =
                                    [file |-> MaxTime, archive |-> MaxTime]]
              ELSE UNCHANGED <<readers, disk, hsize>>
    /\ UNCHANGED <<now, upc, uix, ulm, uold, ngen, rpc, rh, ures, tickReaders,
                   cleanups, reqFailed>>
    /\ UNCHANGED <<bpc, bix, disk0, lq, lres, lstatus, cfg, updater, lstat>>
    /\ UNCHANGED <<fsvars, nvars>>

NextStartup ==
    \/ LoadEdition
    \/ StartUpdater
    \/ \E q \in {"", Editions[2], "GeoLite2-Country"}, outcome \in LookupOutcomes :
            LookupGeoip(q, outcome)
    \/ \E edition \in EditionSet, outcome \in {"Ok", "HttpError", "Swapped"} :
            UpdateEdition(edition, outcome)
    \/ \E far \in {{}, {Editions[1]}} : GetStatus(far)

SpecStartup == InitStartup /\ [][NextStartup]_vars

\* ------------------------------------------- the index: FileService.archives
\* The tags with a refresh task of their own: tzdata and an edition.
IndexTags == {"tzdata", Editions[1]}
MaxPublishes == 2

\* A tag without an entry in the map.
NoEntry == [mtime |-> 0 - 1, utime |-> 0 - 1]

\* im::HashMap::update: a new map with the entry; the old map is as it was.
UpdateMap(m, tag, info) == [m EXCEPT ![tag] = info]

\* refresh_archive's closure: the new record of the tag.
UpdateClosure(m, tag, t) == UpdateMap(m, tag, [mtime |-> t, utime |-> t])

\* set_refresh_timestamp's closure: the tag's record with a later utime, when
\* the tag has a record with an earlier one.
BumpApplies(m, tag, t) == m[tag] # NoEntry /\ m[tag].utime < t
BumpClosure(m, tag, t) == UpdateMap(m, tag, [m[tag] EXCEPT !.utime = t])

InitIndex ==
    /\ now = 0
    /\ disk = InitDisk({})
    /\ InitMaxMind({})
    /\ InitFileService({})
    /\ NamesOff
    /\ StartupOff
    /\ \E found \in SUBSET IndexTags :
        heap = <<[g \in IndexTags |->
                    IF g \in found THEN [mtime |-> 0, utime |-> 0] ELSE NoEntry]>>
    /\ index = 1
    /\ ppc = [p \in IndexTags |-> "idle"]
    /\ pcur = [p \in IndexTags |-> 0]
    /\ pnew = [p \in IndexTags |-> 0]
    /\ pkind = [p \in IndexTags |-> "none"]
    /\ pver = [p \in IndexTags |-> 0]
    /\ plast = heap[1]
    /\ snap = 0
    /\ snapSeen = <<>>
    /\ SliceOff

\* The refresh of a tag reaches archives.rcu(closure): rcu loads the map.
RcuLoad(p, kind) ==
    /\ ppc[p] = "idle"
    /\ pver[p] < MaxPublishes
    /\ pver' = [pver EXCEPT ![p] = @ + 1]
    /\ pkind' = [pkind EXCEPT ![p] = kind]
    /\ pcur' = [pcur EXCEPT ![p] = index]
    /\ ppc' = [ppc EXCEPT ![p] = "compute"]
    /\ UNCHANGED <<heap, index, pnew, plast, snap, snapSeen>>
    /\ UNCHANGED <<names, todo, out, dpc, names0, published, req, zvars>>
    /\ UNCHANGED <<now, disk, mmvars, fsvars, svars>>

\* rcu calls the closure on the map it has: the closure allocates the map it
\* returns, or (set_refresh_timestamp with nothing to bump) returns the map
\* it was given.
RcuCompute(p) ==
    /\ ppc[p] = "compute"
    /\ LET m == heap[pcur[p]] IN
        IF pkind[p] = "bump" /\ ~BumpApplies(m, p, pver[p])
        THEN /\ pnew' = [pnew EXCEPT ![p] = pcur[p]]
             /\ UNCHANGED heap
        ELSE /\ heap' = Append(heap, IF pkind[p] = "bump"
                                     THEN BumpClosure(m, p, pver[p])
                                     ELSE UpdateClosure(m, p, pver[p]))
             /\ pnew' = [pnew EXCEPT ![p] = Len(heap) + 1]
    /\ ppc' = [ppc EXCEPT ![p] = "cas"]
    /\ UNCHANGED <<index, pcur, pkind, pver, plast, snap, snapSeen>>
    /\ UNCHANGED <<names, todo, out, dpc, names0, published, req, zvars>>
    /\ UNCHANGED <<now, disk, mmvars, fsvars, svars>>

\* A store that does not compare.
CasAlways(current, seen) == TRUE
\* compare_and_swap: the new map is stored when the index still points to
\* the map the closure was given.
CasSucceeds(current, seen) == current = seen

\* rcu: compare_and_swap; when another publication came between, rcu takes
\* the map now in the index and calls the closure again.
RcuCas(p) ==
    /\ ppc[p] = "cas"
    /\ IF CasSucceeds(index, pcur[p])
       THEN /\ index' = pnew[p]
            /\ plast' = [plast EXCEPT ![p] = heap[pnew[p]][p]]
            /\ ppc' = [ppc EXCEPT ![p] = "idle"]
            /\ UNCHANGED pcur
       ELSE /\ pcur' = [pcur EXCEPT ![p] = index]
            /\ ppc' = [ppc EXCEPT ![p] = "compute"]
            /\ UNCHANGED <<index, plast>>
    /\ UNCHANGED <<heap, pnew, pkind, pver, snap, snapSeen>>
    /\ UNCHANGED <<names, todo, out, dpc, names0, published, req, zvars>>
    /\ UNCHANGED <<now, disk, mmvars, fsvars, svars>>

\* get_latest_archive: archives.load() gives the reader the map of the moment.
LoadSnapshot ==
    /\ snap' = index
    /\ snapSeen' = heap[index]
    /\ snap' # snap
    /\ UNCHANGED <<heap, index, ppc, pcur, pnew, pkind, pver, plast>>
    /\ UNCHANGED <<names, todo, out, dpc, names0, published, req, zvars>>
    /\ UNCHANGED <<now, disk, mmvars, fsvars, svars>>

NextIndex ==
    \/ \E p \in IndexTags, kind \in {"update", "bump"} : RcuLoad(p, kind)
    \/ \E p \in IndexTags : RcuCompute(p)
    \/ \E p \in IndexTags : RcuCas(p)
    \/ LoadSnapshot

SpecIndex == InitIndex /\ [][NextIndex]_vars

\* ------------------------------------------------ cleanup_archive(version)
\* Tags the pattern of archive names accepts, one of which goes on from
\* another with a hyphen and digits.
CleanupTags == {<<"t", "z">>, <<"a">>, <<"a", "-", "0", "7">>}
CleanupVersions ==
    {[tag |-> g, path |-> ArchiveFileName(g, WholeSecond(sec)), mtime |-> WholeSecond(sec)] :
        g \in CleanupTags, sec \in NameSeconds}
\* What data_dir can hold: the archives of the versions, what was extracted
\* from some of them, and the timestamp files of the tags.
CleanupNames ==
    {v.path : v \in CleanupVersions}
    \cup {ExtractedName(g, WholeSecond(sec)) :
            g \in {<<"t", "z">>, <<"a", "-", "0", "7">>}, sec \in NameSeconds}
    \cup {TimestampName(g) : g \in CleanupTags}

\* A version whose archive is in data_dir is handed to cleanup_archive.
InitCleanup ==
    /\ now = 0
    /\ disk = InitDisk({})
    /\ InitMaxMind({})
    /\ InitFileService({})
    /\ StartupOff
    /\ IndexOff
    /\ \E info \in CleanupVersions :
        /\ out = {info}
        /\ names \in {ns \in SUBSET CleanupNames : info.path \in ns}
    /\ names0 = names
    /\ todo = {}
    /\ dpc = "cleanup"
    /\ published = NoArchive
    /\ req = NoRequest

\* cleanup_archive(info): cleanup_data_dir with the prefix, then remove_file.
CleanupVersion ==
    /\ dpc = "cleanup"
    /\ \E info \in out : names' = CleanupArchiveNames(names, info)
    /\ dpc' = "cleaned"
    /\ UNCHANGED <<todo, out, names0, published, req, ivars>>
    /\ UNCHANGED <<now, disk, mmvars, fsvars, svars>>

NextCleanup == CleanupVersion

SpecCleanup == InitCleanup /\ [][NextCleanup]_vars

\* ------------------------------------------------ files of zoneinfo
\* load_from_slice reads the POSIX TZ text of a compiled zone file: the last
\* line of a file that starts with "TZif".  Bytes are their values: 10 is the
\* newline, 32 the space, 97 "a", and 195 169 is the UTF-8 of one character
\* (195 without a continuation byte, or 169 alone, is not UTF-8).
MaxTail == 4
TZif == <<84, 90, 105, 102>>
Newline == 10
SliceHeads == {TZif, <<84, 90, 105>>, <<>>}
SliceBytes == {Newline, 32, 97, 195, 169}
SliceTails == UNION {[1..n -> SliceBytes] : n \in 0..MaxTail}
ZoneIds == {"UTC", "Etc/UTC"}
\* No entry of a zone id in the table (a recorded text is never empty).
NoSpec == <<>>

\* bytes.strip_suffix(b"\n"): the bytes without the newline they end with.
EndsWithNewline(bytes) == Len(bytes) > 0 /\ bytes[Len(bytes)] = Newline
StripSuffix(bytes) == SubSeq(bytes, 1, Len(bytes) - 1)

\* A search that gives the first newline.
PositionFirst(bytes) ==
    IF \E i \in 1..Len(bytes) : bytes[i] = Newline
    THEN CHOOSE i \in 1..Len(bytes) :
            bytes[i] = Newline /\ \A j \in 1..(i - 1) : bytes[j] # Newline
    ELSE 0
\* bytes.iter().rposition(|c| *c == b'\n'): the place of the last newline, 0
\* for None.
RPosition(bytes) ==
    IF \E i \in 1..Len(bytes) : bytes[i] = Newline
    THEN CHOOSE i \in 1..Len(bytes) :
            bytes[i] = Newline /\ \A j \in (i + 1)..Len(bytes) : bytes[j] # Newline
    ELSE 0

\* str::from_utf8 is Ok: every byte is ASCII, or a lead byte of a two-byte
\* character followed by a continuation byte.
RECURSIVE FromUtf8Ok(_)
FromUtf8Ok(b) ==
    IF b = <<>> THEN TRUE
    ELSE IF b[1] < 128 THEN FromUtf8Ok(Tail(b))
    ELSE IF b[1] >= 194 /\ b[1] <= 223 /\ Len(b) >= 2 /\ b[2] >= 128 /\ b[2] <= 191
         THEN FromUtf8Ok(Tail(Tail(b)))
    ELSE FALSE

\* str::trim: the text without the white space at its ends (of the bytes of
\* this part the newline and the space are white space).
IsWhitespace(c) == c \in {9, 10, 11, 12, 13, 32}
Trim(str) ==
    LET black == {i \in 1..Len(str) : ~IsWhitespace(str[i])} IN
    IF black = {} THEN <<>>
    ELSE SubSeq(str, CHOOSE i \in black : \A j \in black : i <= j,
                     CHOOSE i \in black : \A j \in black : j <= i)

\* load_from_slice: the table it leaves.
LoadFromSlice(name, bytes, table) ==
    IF ~StartsWith(bytes, TZif) THEN table
    ELSE IF ~EndsWithNewline(bytes) THEN table
    ELSE LET stripped == StripSuffix(bytes)
             i == RPosition(stripped) IN
         IF i = 0 THEN table
         ELSE LET spec == SubSeq(stripped, i + 1, Len(stripped)) IN
              IF ~FromUtf8Ok(spec) THEN table
              ELSE IF Trim(spec) = <<>> THEN table
              ELSE [table EXCEPT ![name] = Trim(spec)]

InitSlice ==
    /\ now = 0
    /\ disk = InitDisk({})
    /\ InitMaxMind({})
    /\ InitFileService({})
    /\ NamesOff
    /\ StartupOff
    /\ heap = <<>> /\ index = 0 /\ ppc = <<>> /\ pcur = <<>> /\ pnew = <<>>
    /\ pkind = <<>> /\ pver = <<>> /\ plast = <<>> /\ snap = 0 /\ snapSeen = <<>>
    /\ \E h \in SliceHeads, t \in SliceTails : tzbytes = h \o t
    /\ tzname \in ZoneIds
    /\ tzin \in [ZoneIds -> {NoSpec, <<97>>}]
    /\ tzout = tzin
    /\ tzres = "none"

\* load_from_slice(name, bytes, out) runs and returns Ok(()).
LoadFromSliceCall ==
    /\ tzres = "none"
    /\ tzout' = LoadFromSlice(tzname, tzbytes, tzout)
    /\ tzres' = "Ok"
    /\ UNCHANGED <<tzbytes, tzname, tzin>>
    /\ UNCHANGED <<heap, index, ppc, pcur, pnew, pkind, pver, plast, snap, snapSeen>>
    /\ UNCHANGED <<names, todo, out, dpc, names0, published, req>>
    /\ UNCHANGED <<now, disk, mmvars, fsvars, svars>>

NextSlice == LoadFromSliceCall

SpecSlice == InitSlice /\ [][NextSlice]_vars

\* ------------------------------------------------------------------ claims
Superseded(h) == h # NoHandle /\ readers[h.ed] # h
BackingFiles(h) == {HandlePath(h), WithExtensionTarGz(HandlePath(h))}

\* C1: while a request holds a handle that a swap has superseded, no step
\* removes the .mmdb or the .tar.gz backing that handle, and the archive a
\* download request is about to open for such a handle is there.
C1_HeldFilesKept ==
    /\ [][\A r \in Requests :
            (Superseded(rh[r]) /\ rh'[r] = rh[r]) =>
                \A p \in BackingFiles(rh[r]) : Exists(disk, p) => Exists(disk', p)]_vars
    /\ [](\A r \in Requests :
            (Superseded(rh[r]) /\ rpc[r] = "open") =>
                Exists(disk, WithExtensionTarGz(HandlePath(rh[r]))))

\* A request holds a superseded handle while the updater waits to clean it up.
C1_Witness ==
    \E r \in Requests : Superseded(rh[r]) /\ upc = "gc" /\ uold = rh[r]

\* A record of a version of the tag other than the one the index advertises.
FsSuperseded(info) ==
    /\ info # NoInfo
    /\ archives[info.tag] # NoInfo
    /\ archives[info.tag].mtime # info.mtime

\* C2: while a caller holds a record it got from get_latest_archive for a
\* version that has been superseded, no step removes that version's archive.
C2_HeldArchiveKept ==
    [][\A c \in Callers :
        (FsSuperseded(ch[c]) /\ ch'[c] = ch[c]) =>
            (Exists(disk, InfoPath(ch[c])) => Exists(disk', InfoPath(ch[c])))]_vars

\* A version is waiting for its cleanup.
GcPending(p) == upc = "gc" /\ uold # NoHandle /\ HandlePath(uold) = p

\* C3: cleanup is invoked exactly once per superseded version: never twice for
\* the same version, and a version handed to the GC has not been cleaned before.
C3_CleanupExactlyOnce ==
    \A p \in MmdbPaths :
        /\ cleanups[p] <= 1
        /\ GcPending(p) => cleanups[p] = 0

\* C4: once the GC of a superseded version has run (every reference to the
\* prior handle is dropped), neither the prior .mmdb nor the prior .tar.gz is
\* in data_dir.
C4_PriorPairRemoved ==
    [][\A p \in MmdbPaths :
        (cleanups'[p] = cleanups[p] + 1 /\ \A e \in EditionSet : HandlePath(readers[e]) # p)
            => (~Exists(disk', p) /\ ~Exists(disk', WithExtensionTarGz(p)))]_vars

\* C5: when update(edition) fails in a tick, the edition's slot holds the
\* handle it held before the tick, its Error Slot gets the failure message,
\* and update_all goes on to the next edition.
C5_FailureIsolated ==
    [][(upc = "store" /\ ures # "Ok" /\ upc' # "store") =>
        /\ readers'[Cur] = tickReaders[Cur]
        /\ errors'[Cur] = ures
        /\ upc' = "loop"
        /\ uix' = uix + 1]_vars

\* Exactly two requests were sent: the first edition's failed and left its
\* message, and the second edition was then updated in the same tick.
C5_Witness ==
    /\ ngen = 2
    /\ uix = 2
    /\ upc = "store"
    /\ ures = "Ok"
    /\ errors[Editions[1]] # ""
    /\ readers[Editions[2]] # tickReaders[Editions[2]]

\* C6: an extracted .mmdb that cannot be opened is removed by the update that
\* extracted it, the update returns the error, and the slot keeps the handle
\* published before: it never holds the corrupt database and is not emptied.
C6_CorruptNotPublished ==
    /\ \A e \in EditionSet : readers[e] # NoHandle => readers[e].body = "db"
    /\ \A p \in MmdbPaths :
        disk[p].body = "baddb" => (upc = "open" /\ p = MmdbPath(Cur, ulm))
    /\ (upc = "store" /\ ures = "MaxMindDb") => readers[Cur] = tickReaders[Cur]

\* update returned the open error for an edition that has a published handle.
C6_Witness ==
    upc = "store" /\ ures = "MaxMindDb" /\ readers[Cur] # NoHandle

\* C7: after a tick, no archive whose body could not be turned into a database
\* is installed under a canonical name.
C7_NothingInstalled ==
    upc = "idle" =>
        \A p \in ArchivePaths : disk[p].body \notin {"nongz", "nommdb"}

CanonicalPaths == ArchivePaths \cup TimestampPaths

\* C8: a file under a canonical name (<tag>-<timestamp>.tar.gz, <tag>.timestamp)
\* is always complete, whatever step the refresh or the process stops at;
\* incomplete bytes are in temp files only, and an archive appears or changes
\* under its canonical name only by the rename of a complete temp file.
\* (The directories TimezoneService unpacks an archive into are not files of
\* the refresh.)
C8_CanonicalComplete ==
    /\ [](\A p \in AllPaths \ ExtractedPaths :
            (Exists(disk, p) /\ ~disk[p].complete) => p \in TempPaths)
    /\ [](\A p \in CanonicalPaths : Exists(disk, p) => disk[p].complete)
    /\ [][\A p \in ArchivePaths :
            (Exists(disk', p) /\ disk'[p] # disk[p]) =>
                \E t \in TempPaths :
                    /\ disk[t] = disk'[p]
                    /\ disk[t].complete
                    /\ ~Exists(disk', t)]_vars

\* The process was stopped in the middle of a download: the partly written
\* temp file is left beside a complete archive.
C8_Witness ==
    /\ restarts = 1
    /\ Exists(disk, LeftoverTmp)
    /\ ~disk[LeftoverTmp].complete
    /\ \E p \in ArchivePaths : Exists(disk, p)

\* C9: a refresh_archive call made when the index has a current version of
\* the tag with now - utime < min_interval returns None, sends no HTTP request
\* and leaves the index and data_dir as they were.
C9_FastSkipFrame ==
    [][\A g \in FsTags :
        (/\ ncalls' = ncalls + 1
         /\ archives[g] # NoInfo
         /\ now' - archives[g].utime < MinInterval) =>
            /\ lastCall'.ret = "None"
            /\ httpCalls' = httpCalls
            /\ archives' = archives
            /\ disk' = disk
            /\ fpc' = "idle"]_vars

\* A call was skipped although the version's mtime is a full interval old:
\* an earlier 304 had moved its utime.
C9_Witness ==
    /\ lastCall.ret = "None"
    /\ ~lastCall.sent
    /\ \E g \in FsTags :
        /\ archives[g] # NoInfo
        /\ lastCall.t - archives[g].mtime >= MinInterval

Completed(call) == call.ret \in {"None", "Some", "Err"}
NetworkCalls(call) == IF call.sent THEN 1 ELSE 0
NewVersions(call) == IF call.ret = "Some" THEN 1 ELSE 0
\* The last two calls are consecutive refreshes within min_interval.
ConsecutiveWithinInterval ==
    /\ Completed(prevCall)
    /\ Completed(lastCall)
    /\ lastCall.t - prevCall.t < MinInterval
OneCallOneVersion ==
    /\ NetworkCalls(prevCall) + NetworkCalls(lastCall) = 1
    /\ NewVersions(prevCall) + NewVersions(lastCall) <= 1

\* C10 as stated: from every starting state, two consecutive refreshes within
\* min_interval issue exactly one network call and at most one new version.
C10_ExactlyOneCall ==
    ConsecutiveWithinInterval => OneCallOneVersion

\* C10: two consecutive refreshes within min_interval, the first of which
\* sends its request and returns without error leaving a current version in the
\* index, issue exactly one network call and at most one new version.
C10_OneCallAfterSuccess ==
    (/\ ConsecutiveWithinInterval
     /\ prevCall.sent
     /\ prevCall.ret # "Err"
     /\ prevCall.cur) => OneCallOneVersion

\* A download was followed, later but within the interval, by a skipped call.
C10_Witness ==
    /\ ConsecutiveWithinInterval
    /\ prevCall.ret = "Some"
    /\ lastCall.t > prevCall.t
    /\ ~lastCall.sent

\* The step in which a refresh gets its 304: refresh_archive returns None
\* from its request, or download gives Ok(None) straight from its request.
FsNotModifiedStep == fpc = "sent" /\ lastCall'.ret = "None"
MmNotModifiedStep == upc = "loop" /\ upc' = "store" /\ ures' = "Ok"

\* C11: when a refresh is answered 304 no file but <tag>.timestamp changes
\* (FileService writes the refresh's now there), the Reader Slots and the
\* zones in use are the same as before, and no cleanup is scheduled or run.
C11_NotModifiedFrame ==
    [][(FsNotModifiedStep \/ MmNotModifiedStep) =>
        /\ \A p \in AllPaths \ TimestampPaths : disk'[p] = disk[p]
        /\ \A g \in Tags : g # ftag => disk'[TimestampPath(g)] = disk[TimestampPath(g)]
        /\ FsNotModifiedStep => disk'[TimestampPath(ftag)].data = now
        /\ readers' = readers
        /\ timezones' = timezones
        /\ tzpc' = tzpc
        /\ gcs' = gcs
        /\ uold' = uold
        /\ cleanups' = cleanups]_vars

\* A 304 was received for a tag that has an archive, extracted zones and a
\* cleanup task still waiting.
C11_Witness ==
    /\ lastCall.sent
    /\ lastCall.ret = "None"
    /\ disk[TimestampPath("tzdata")].data = lastCall.t
    /\ archives["tzdata"] # NoInfo
    /\ Exists(disk, InfoPath(archives["tzdata"]))
    /\ timezones.from = "archive"
    /\ gcs # {}

\* C12: a 304 for a tag that has a current version makes refresh_archive
\* return None, and the index then gives for the tag a record with the same
\* tag, path and mtime and with utime = the refresh's now; the entries of the
\* other tags are the same as before.
C12_NotModifiedBumpsUtime ==
    [][(FsNotModifiedStep /\ archives[ftag] # NoInfo) =>
        /\ lastCall'.ret = "None"
        /\ archives'[ftag].tag = archives[ftag].tag
        /\ InfoPath(archives'[ftag]) = InfoPath(archives[ftag])
        /\ archives'[ftag].mtime = archives[ftag].mtime
        /\ archives'[ftag].utime = now
        /\ \A g \in Tags : g # ftag => archives'[g] = archives[g]]_vars

\* After a 304 the current version has the utime of that refresh, later than
\* its mtime.
C12_Witness ==
    /\ lastCall.sent
    /\ lastCall.ret = "None"
    /\ archives["tzdata"] # NoInfo
    /\ archives["tzdata"].utime = lastCall.t
    /\ archives["tzdata"].utime > archives["tzdata"].mtime

\* C13: a response whose status is neither 2xx nor 304 makes the refresh fail:
\* refresh_archive goes on to download a body only after a 2xx, and a refresh
\* that returns an error from its request leaves data_dir, the index and the
\* Reader Slots as they were.
C13_NonSuccessFails ==
    /\ [](fpc \in {"recv", "persist", "stamp", "publish"} => IsSuccess(fstatus))
    /\ [][(fpc = "sent" /\ lastCall'.ret = "Err") =>
            (disk' = disk /\ archives' = archives /\ timezones' = timezones)]_vars
    /\ [][(upc = "loop" /\ upc' = "store" /\ ures' = "HttpError") =>
            (disk' = disk /\ readers' = readers)]_vars

\* C14: after a 2xx the mtime refresh_archive takes is the Last-Modified header
\* or, without one, the call's now; the record it returns has that mtime and
\* utime = now, is the one the index then gives for the tag, and its archive is
\* in data_dir when the call returns.
C14_PublishedVersion ==
    /\ [][(fpc = "sent" /\ fpc' = "recv" /\ IsSuccess(fstatus')) =>
            fmtime' \in LastModifiedValues \cup {now}]_vars
    /\ [][(fpc = "publish" /\ lastCall'.ret = "Some" /\ IsSuccess(fstatus)) =>
            /\ tzinfo' = archives'[ftag]
            /\ tzinfo'.tag = ftag
            /\ tzinfo'.mtime = fmtime
            /\ tzinfo'.utime = now
            /\ Exists(disk', InfoPath(tzinfo'))]_vars

\* The records of the archives of a tag among the entries ns of data_dir.
ArchivesOf(ns, tag) ==
    {ArchiveInfoFromPath(n) : n \in {m \in ns : MatchesArchiveName(m)
                                               /\ ArchiveInfoFromPath(m).tag = tag}}
Older(b, infos) == \E c \in infos : TimeLess(b.mtime, c.mtime)

C16_CanonicalNames ==
    \A info \in out \cup ({published} \ {NoArchive}) :
        info.path = ArchiveFileName(info.tag, info.mtime)

\* C17: for every tag and every mtime a refresh can assign, parsing the name
\* written for (tag, mtime) gives the same tag and the same mtime.
C17_RoundTrip ==
    published # NoArchive =>
        /\ ArchiveInfoFromPath(published.path).tag = published.tag
        /\ ArchiveInfoFromPath(published.path).mtime = published.mtime

\* C18: from the end of startup on, whatever was on disk, every configured
\* edition has a Reader Slot and an Error Slot; a lookup that names a
\* configured edition and an update of a configured edition never end with
\* UnknownEdition.
C18_SlotsForConfigured ==
    bpc = "serving" =>
        /\ DOMAIN readers = EditionSet
        /\ DOMAIN errors = EditionSet
        /\ (lres = "UnknownEdition" => ResolveEdition(lq) \notin EditionSet)
        /\ bupd.res # "UnknownEdition"

\* An edition with nothing on disk at startup has an empty slot; a lookup
\* and an update have named it.
C18_Witness ==
    /\ bpc = "serving"
    /\ \E e \in EditionSet :
        /\ Versions(disk0, e) = {}
        /\ readers[e] = NoHandle
        /\ lq = e /\ lres = "MissingDatabase"
        /\ bupd = [ed |-> e, res |-> "HttpError"]

\* A version of the edition that load_all_latest tried to open and could not.
FailedToLoad(e, t) ==
    /\ Exists(disk0, MmdbPath(e, t))
    /\ ~OpensAsDatabase(disk0[MmdbPath(e, t)])
    /\ \A u \in Versions(disk0, e) : u > t => ~OpensAsDatabase(disk0[MmdbPath(e, u)])

\* C19: when a version of an edition failed to load at startup, then after
\* startup the edition's Error Slot holds the message, the files of the
\* broken version (its .mmdb and its .tar.gz) are gone, and every other
\* edition's slot is what loading that edition alone gives.
C19_StartupFailureIsolated ==
    (bpc = "serving" /\ bupd = NoUpdate) =>
        \A e \in EditionSet : \A t \in BootTimes :
            FailedToLoad(e, t) =>
                /\ errors[e] # ""
                /\ ~Exists(disk, MmdbPath(e, t))
                /\ ~Exists(disk, ArchivePath(e, t))
                /\ \A o \in EditionSet \ {e} : readers[o] = LoadLatest(disk0, o).reader

\* The step of a lookup_geoip request.
LookupStep == lres' # "none" /\ <<lq, lres, lstatus>>' # <<lq, lres, lstatus>>

\* C20: a lookup takes the edition given or, when it is omitted, the first
\* configured one; it ends with UnknownEdition and 404 exactly when that
\* edition is not configured, with MissingDatabase and 503 exactly when it is
\* configured and its Reader Slot is empty; a result of the reader is
\* answered with 200 and every other error with 500.
C20_LookupErrors ==
    [][LookupStep =>
        LET e == IF lq' = "" THEN Editions[1] ELSE lq'
            empty == e \in DOMAIN readers /\ readers[e] = NoHandle
        IN  /\ lres' = "UnknownEdition" <=> e \notin EditionSet
            /\ lres' = "MissingDatabase" <=> (e \in EditionSet /\ empty)
            /\ lres' = "UnknownEdition" => lstatus' = 404
            /\ lres' = "MissingDatabase" => lstatus' = 503
            /\ lres' \in {"Some", "None"} => lstatus' = 200
            /\ lres' \notin {"Some", "None", "UnknownEdition", "MissingDatabase"}
                    => lstatus' = 500]_vars

\* A lookup without an edition found the first edition's slot empty; one of
\* a loaded edition ended with an error of the reader.
C20_Witness ==
    /\ bpc = "serving"
    /\ \/ lq = "" /\ readers[Editions[1]] = NoHandle /\ lres = "MissingDatabase" /\ lstatus = 503
       \/ lq = Editions[2] /\ readers[Editions[2]] # NoHandle /\ lres = "MaxMindDb" /\ lstatus = 500

\* The editions a download of which is in progress: update(edition) has sent
\* its request and has not returned to update_all.
Downloading ==
    {e \in EditionSet : upc \in {"recv", "persist", "extract", "open", "gc"} /\ e = Cur}

\* C21: at most one refresh of a tag is in progress at any moment: a tick
\* starts only when the tick before has visited every edition and returned,
\* and while an edition is being refreshed no other edition is and the loop
\* does not move on.
C21_OneRefreshAtATime ==
    /\ [](Cardinality(Downloading) <= 1)
    /\ [][now' # now => (upc = "idle" /\ Downloading = {} /\ ures = "none")]_vars
    /\ [][Downloading # {} => (uix' = uix /\ now' = now)]_vars

\* The second edition is being downloaded in a later tick, after a download
\* of the tick before.
C21_Witness ==
    upc = "recv" /\ uix = 2 /\ ngen >= 2 /\ now >= 1

\* C22: the updater task is spawned exactly when an account id or a download
\* URL is configured; when neither is, nothing is spawned, no update (hence no
\* download request) ever runs, and no Reader Slot or Error Slot changes
\* after startup.
C22_AutoUpdateSwitch ==
    /\ [](bpc = "serving" =>
            (updater = "spawned" <=> (cfg.account \/ cfg.url)))
    /\ []((bpc = "serving" /\ ~(cfg.account \/ cfg.url)) =>
            (updater = "disabled" /\ bupd = NoUpdate))
    /\ [][(bpc = "serving" /\ ~(cfg.account \/ cfg.url)) =>
            (readers' = readers /\ errors' = errors /\ disk' = disk)]_vars

\* Without account id and URL the service serves a lookup and nothing was
\* spawned; with only a URL an update has run.
C22_Witness ==
    /\ bpc = "serving"
    /\ \/ ~cfg.account /\ ~cfg.url /\ updater = "disabled" /\ lres # "none"
       \/ ~cfg.account /\ cfg.url /\ updater = "spawned" /\ bupd # NoUpdate

\* The step of a status() call.
StatusStep == lstat' # <<>> /\ lstat' # lstat
Loaded(e) == readers[e] # NoHandle

C24_CurrentFilesKept ==
    [][cleanups' # cleanups =>
        \A e \in EditionSet :
            (readers[e] # NoHandle /\ Exists(disk, HandlePath(readers[e])))
                => Exists(disk', HandlePath(readers[e]))]_vars

\* A step of update_all that skips the current edition as fresh enough.
SkippedStep == upc = "loop" /\ upc' = "loop" /\ uix' = uix + 1
\* A step of update_all that stores the result of update(edition).
StoredStep == upc = "store" /\ upc' # "store"

\* C25: after every updater tick the Error Slot of each edition reflects the
\* tick's outcome: an edition skipped as fresh enough has an empty slot, the
\* result of update() (Ok for a swap and for a 304, the error otherwise) is
\* what the slot holds next and nothing else writes the slot, so at the end
\* of the tick an edition whose handle the tick replaced has an empty slot.
C25_ErrorReflectsTick ==
    /\ [][SkippedStep => errors'[Cur] = ""]_vars
    /\ [][StoredStep =>
            /\ ures # "none"
            /\ errors' = [errors EXCEPT ![Cur] = IF ures = "Ok" THEN "" ELSE ures]]_vars
    /\ [][errors' # errors => StoredStep]_vars
    /\ [][(upc = "loop" /\ upc' = "store" /\ disk' = disk) =>
            ures' \in {"Ok", "Reqwest", "HttpError"}]_vars
    /\ [](upc = "store" /\ readers[Cur] # tickReaders[Cur] => ures = "Ok")
    /\ [][(upc = "loop" /\ upc' = "idle") =>
            \A e \in EditionSet : readers[e] # tickReaders[e] => errors[e] = ""]_vars

\* A tick failed for an edition and a later tick replaced its handle: the
\* slot held the error and is empty again.
C25_Witness ==
    /\ upc = "idle"
    /\ \E e \in EditionSet :
        /\ errors[e] = ""
        /\ readers[e] # NoHandle
        /\ readers[e].gen >= 2
    /\ \E e \in EditionSet : errors[e] # ""

\* update() has swapped the new handle in and is inside
\* wait_unused_and_cleanup while a request still holds the superseded handle:
\* the result is not recorded and the loop does not go on.
UpdaterWaitsForRequest ==
    /\ upc = "gc"
    /\ uold # NoHandle
    /\ \E r \in Requests : rh[r] = uold

\* C26: the updater does not wait for outstanding references to a superseded
\* handle: it is never held in the cleanup of the handle by a request that
\* still uses it.
C26_UpdaterNeverWaits == ~UpdaterWaitsForRequest

\* The archive the update() that is returning has persisted: a 2xx answer of
\* its own request, installed under the archive name.
ArchiveOfThisUpdate ==
    {t \in Times : /\ Exists(disk, ArchivePath(Cur, t))
                   /\ disk[ArchivePath(Cur, t)].data = ngen}

\* C27: when update() has downloaded a new archive (2xx) and has not
\* published a new handle from it, the Error Slot of the edition is non-empty
\* once the result is stored; an archive without an mmdb member is such a case.
C27_UnpublishedDownloadReported ==
    [][(StoredStep /\ ArchiveOfThisUpdate # {} /\ readers[Cur] = tickReaders[Cur])
            => errors'[Cur] # ""]_vars

\* C28: a Reader Slot that holds a handle is never left empty by a later
\* step (an update that succeeds or fails, a cleanup, a lookup): the swap of
\* update() puts the new handle in place of the old one in one step, so a
\* lookup ends with MissingDatabase only for an edition whose slot is empty
\* at that moment, which then has held no handle before.
C28_SlotStaysFilled ==
    /\ [][\A e \in DOMAIN readers :
            readers[e] # NoHandle =>
                (e \in DOMAIN readers' /\ readers'[e] # NoHandle)]_vars
    /\ [][(LookupStep /\ lres' = "MissingDatabase") =>
            /\ ResolveEdition(lq') \in DOMAIN readers
            /\ readers[ResolveEdition(lq')] = NoHandle
            /\ LoadLatest(disk0, ResolveEdition(lq')).reader = NoHandle]_vars

\* An edition loaded at startup was swapped to a new version, a later update
\* of it failed, and a lookup of it was answered from the handle in the slot.
C28_Witness ==
    /\ bpc = "serving"
    /\ \E e \in EditionSet :
        /\ LoadLatest(disk0, e).reader # NoHandle
        /\ readers[e] = NewVersion(e)
        /\ bupd.ed = e /\ bupd.res \notin {"Ok", "none"}
        /\ lq = e /\ lres = "Some"

\* C29: a publication to the index is never lost: whenever the refresh of a
\* tag is not inside a publication, the map the index points to holds for the
\* tag the entry its last publication wrote, whatever the refresh of the
\* other tag has published meanwhile; and the map a reader has loaded holds
\* what it held when the reader loaded it.
C29_NoLostUpdate ==
    /\ \A p \in IndexTags : ppc[p] = "idle" => heap[index][p] = plast[p]
    /\ snap # 0 => heap[snap] = snapSeen

\* Both tags have published a new version, one of them on its second attempt
\* because the other came between, and a reader holds the map from before.
C29_Witness ==
    /\ \A p \in IndexTags :
        /\ ppc[p] = "idle"
        /\ pver[p] = 1
        /\ pkind[p] = "update"
        /\ heap[index][p] = [mtime |-> 1, utime |-> 1]
    /\ Len(heap) = 4
    /\ snap = 1

\* What belongs to a version: its archive and what was extracted from it.
ArtifactsOf(g, sec) ==
    {ArchiveFileName(g, WholeSecond(sec)), ExtractedName(g, WholeSecond(sec))}

\* C30: cleanup_archive(version) removes exactly the archive of the version
\* and the entries whose name starts with <tag>-<mtime>; it removes neither
\* the archive nor the extracted files of another tag or of another version
\* of the tag, nor the timestamp file of the tag.
C30_CleanupFrame ==
    dpc = "cleaned" =>
        \A info \in out :
            LET removed == names0 \ names IN
            /\ removed = {n \in names0 :
                            n = info.path \/ StartsWith(n, CleanupPrefix(info))}
            /\ TimestampName(info.tag) \notin removed
            /\ \A g \in CleanupTags, sec \in NameSeconds :
                (g # info.tag \/ WholeSecond(sec) # info.mtime)
                    => removed \cap ArtifactsOf(g, sec) = {}

\* The records startup discovery cleans up whatever the order of the
\* entries: those with a later version of their tag, and those another entry
\* names the same version as.
CleanedWhateverOrder(ns) ==
    {b \in UNION {ArchivesOf(ns, g) : g \in NameTags} :
        \/ Older(b, ArchivesOf(ns, b.tag))
        \/ \E c \in ArchivesOf(ns, b.tag) : c # b /\ c.mtime = b.mtime}
DeletedWhateverOrder(ns) ==
    {n \in ns : \E b \in CleanedWhateverOrder(ns) :
                    n = b.path \/ StartsWith(n, CleanupPrefix(b))}

\* C31: the outcome of startup discovery is a function of what data_dir held,
\* not of the order in which read_dir gave the entries: the index has for
\* each tag the one version that what data_dir held determines (the one with
\* the greatest mtime), and the files deleted are the same.
C31_OrderIndependent ==
    dpc = "done" =>
        /\ \A g \in NameTags :
            LET before == ArchivesOf(names0, g) IN
            \A o \in out : o.tag = g =>
                /\ o \in before /\ ~Older(o, before)
                /\ \A b \in before : ~Older(b, before) => b = o
        /\ names0 \ names = DeletedWhateverOrder(names0)


\* The step in which the process starts again.
RestartStep == restarts' = restarts + 1
\* The last refresh_archive call of the process was answered 200 or 304 and
\* has returned, and no call is in progress.
LastCheckSucceeded ==
    /\ fpc = "idle"
    /\ lastCall.sent
    /\ lastCall.ret \in {"Some", "None"}

\* C32: the last successful upstream check survives a restart: when the last
\* refresh of tzdata was answered 200 or 304 at T and the process starts
\* again, the index has a version of tzdata with utime = T; a version found
\* without a timestamp file has utime = mtime; and after a restart no request
\* is sent within min_interval of the utime of the version.
C32_CheckSurvivesRestart ==
    /\ [][(RestartStep /\ LastCheckSucceeded /\ lastCall.cur) =>
            /\ archives'["tzdata"] # NoInfo
            /\ archives'["tzdata"].utime = lastCall.t]_vars
    /\ [][(RestartStep /\ ~Exists(disk, TimestampPath("tzdata"))
                /\ archives'["tzdata"] # NoInfo) =>
            archives'["tzdata"].utime = archives'["tzdata"].mtime]_vars
    /\ [][(restarts >= 1 /\ fpc = "idle" /\ fpc' = "sent"
                /\ archives["tzdata"] # NoInfo) =>
            now' - archives["tzdata"].utime >= MinInterval]_vars

\* The step in which a refresh_archive call decides about its request.
RequestStep == req' # req

C34_UtimeNeverDecreases ==
    [][\A g \in Tags :
        (archives[g] # NoInfo /\ archives'[g] # NoInfo) =>
            archives'[g].utime >= archives[g].utime]_vars

\* A 200 with an older Last-Modified than the utime of the version before,
\* then a 304: the utime went up both times.
C34_Witness ==
    /\ prevCall.ret = "Some"
    /\ lastCall.sent /\ lastCall.ret = "None"
    /\ lastCall.t > prevCall.t
    /\ archives["tzdata"] # NoInfo
    /\ archives["tzdata"].utime = lastCall.t
    /\ archives["tzdata"].mtime < prevCall.t

\* TimezoneService::update is in load_from_archive and returns in this step.
TzLoadReturns == tzpc \in {"load", "unpack"} /\ tzpc' = "idle"

\* C35: the published table is replaced only by a table built completely and
\* successfully from an archive: the table in use never holds the zones of a
\* partly unpacked archive; it changes only when load_from_archive returns in
\* an update tick, and then to the zones of the archive refresh_archive
\* returned, or at startup, where it is the table of the latest archive or,
\* when there is none or its build fails, the system's; a skipped, 304 or
\* failed refresh leaves it as it is.
C35_TableBuiltCompletely ==
    /\ [](timezones.complete)
    /\ [][timezones' # timezones =>
            \/ /\ TzLoadReturns
               /\ timezones'.from = "archive"
               /\ timezones'.mtime = tzinfo.mtime
            \/ /\ RestartStep
               /\ \/ timezones' = SystemZones
                  \/ /\ timezones'.from = "archive"
                     /\ archives'["tzdata"] # NoInfo
                     /\ timezones'.mtime = archives'["tzdata"].mtime]_vars
    /\ [][(RestartStep /\ archives'["tzdata"] = NoInfo) => timezones' = SystemZones]_vars

\* The tasks of the process are scheduled again and again: a step that can
\* be taken is taken at some time.
SpecFSFair == InitFS /\ [][NextFS]_vars /\ WF_vars(NextFS)

\* TimezoneService::update is not running.
UpdaterIdle == fpc = "idle" /\ tzpc = "idle"
\* One of the last two refresh_archive calls of this process has installed a
\* version of tzdata.
InstalledSinceStartup == prevCall.ret = "Some" \/ lastCall.ret = "Some"
\* The table in use was built from the version of tzdata with this mtime.
BuiltFrom(m) == timezones.from = "archive" /\ timezones.mtime = m

\* C36: whenever the timezone updater is idle after it has installed a
\* version of tzdata since startup, the table in use was built from the
\* version the index advertises, or is built from that version at some later
\* time.
C36_TableFollowsIndex ==
    \A m \in FsTimes :
        [](( /\ UpdaterIdle
             /\ InstalledSinceStartup
             /\ archives["tzdata"] # NoInfo
             /\ archives["tzdata"].mtime = m ) => <>BuiltFrom(m))

\* The bytes between the last two newlines of a file that ends with one.
LastLine(bytes) ==
    LET before == {i \in 1..(Len(bytes) - 1) : bytes[i] = Newline} IN
    SubSeq(bytes, (CHOOSE i \in before : \A j \in before : j <= i) + 1,
           Len(bytes) - 1)
\* The bytes start with "TZif", end with a newline and hold another newline
\* before it, and the bytes between the last two newlines are UTF-8 with
\* something other than white space.
HasSpecLine(bytes) ==
    /\ Len(bytes) >= 4
    /\ \A k \in 1..4 : bytes[k] = TZif[k]
    /\ bytes[Len(bytes)] = Newline
    /\ \E i \in 1..(Len(bytes) - 1) : bytes[i] = Newline
    /\ FromUtf8Ok(LastLine(bytes))
    /\ Trim(LastLine(bytes)) # <<>>

\* C37: for every byte sequence and zone id, load_from_slice returns Ok; it
\* records zone id -> s, s being the trimmed last line, exactly when the
\* bytes start with "TZif", end with a newline, hold another newline before
\* it and the bytes between the two are UTF-8 that is not empty when
\* trimmed; in every other case the table is the one it was given.
C37_LoadFromSlice ==
    /\ tzres \in {"none", "Ok"}
    /\ tzres = "Ok" =>
        IF HasSpecLine(tzbytes)
        THEN /\ tzout[tzname] = Trim(LastLine(tzbytes))
             /\ \A z \in ZoneIds \ {tzname} : tzout[z] = tzin[z]
        ELSE tzout = tzin

\* A file whose last line has white space before its text: the trimmed text
\* was recorded for a zone id that had no entry.
C37_Witness ==
    /\ tzres = "Ok"
    /\ tzbytes = TZif \o <<Newline, 32, 97, Newline>>
    /\ tzin[tzname] = NoSpec
    /\ tzout[tzname] = <<97>>

====
